---- MODULE Spec2Model ----
(***************************************************************************)
(* A model of the pan-agent client.  The repository holds three revisions  *)
(* of the PanAgent class:                                                  *)
(*   "js1"  src/pan-agent.js lines 1-418   (EventEmitter, promise based)    *)
(*   "js2"  src/pan-agent.js lines 420-930 (dispatcher based)               *)
(*   "mjs"  src/pan-agent.mjs              (connect() authenticates,        *)
(*                                          reconnect())                    *)
(* One agent instance of one of the three classes is constructed in Init;  *)
(* the transports (WebSocket objects of the ws package), the timers and    *)
(* the remote peer are the environment.                                    *)
(***************************************************************************)
EXTENDS Integers, Sequences, FiniteSets, TLC

\* ------------------------------------------------------------------ bounds
MaxSocks == 2      \* WebSocket objects one agent creates in a run
MaxId == 2         \* identifiers the remote peer hands out: 1..MaxId
MaxReqs == 2       \* join/leave requests outstanding at one time
MaxGroups == 1     \* group identifiers the caller uses: 1..MaxGroups
MjsMaxReqs == 1    \* joinGroup requests outstanding at one time (pan-agent.mjs)
MaxTasks == 2      \* handler invocations deferred at one time (pan-agent.mjs)
MaxTypes == 2      \* message types the caller registers handlers for: 1..MaxTypes
MjsMaxTypes == 1   \* ... of which a caller of pan-agent.mjs uses 1..MjsMaxTypes
MaxNames == 3      \* names an identifier is derived from: 1..MaxNames
MaxUuids == 5      \* strings of the shape of a UUID: 0..MaxUuids-1
MaxCount == 3      \* frames counted in, and frames counted out, in a run

\* --------------------------------------------------------------- constants
NULL_ID == 0
default_ttl == 8
max_ttl == 32
Mjs_ttl == 8
DefaultCloseCode == 1000

Variants == {"js1", "js2", "mjs"}
SockIds == 1..MaxSocks
Ids == NULL_ID..MaxId

\* readyState of a WebSocket of the ws package.  "ABORTING" is CLOSING after
\* close() on a socket that had not opened (its error event is still to
\* come), "FAILED" is CLOSING after an error event (only close is to come).
\* bound: the agent's message/close/error listeners are attached; ow: the
\* promise connect() awaits on the open event is pending (js1, js2); by: the
\* call whose promise the socket's error rejects (mjs); seen: see SeenSubs
NoSock == [rs |-> "NONE", bound |-> FALSE, ow |-> FALSE, by |-> 0, seen |-> {}]

\* a closed socket emits nothing more: its listeners and history are dropped
ClosedSock == [rs |-> "CLOSED", bound |-> FALSE, ow |-> FALSE, by |-> 0, seen |-> {}]

\* inbound frames: control frames by subtype; auth.ok carries an identity
CtlSubs == {"helo", "auth.ok", "auth.failed", "other"}
AuthOkFrames == {[type |-> "control", sub |-> "auth.ok", node |-> 1, conn |-> c] :
                    c \in Ids \ {NULL_ID}}
InFrames == AuthOkFrames \cup
            {[type |-> "control", sub |-> s, node |-> NULL_ID, conn |-> NULL_ID] :
                    s \in CtlSubs \ {"auth.ok"}}
\* the subtypes remembered per socket (socks[t].seen: what arrived on it)
SeenSubs == {"helo"}
NoFrame == [type |-> "none", sub |-> "none", node |-> NULL_ID, conn |-> NULL_ID]

VARIABLES
    variant,          \* the class that was constructed
    state,            \* this.state
    ws,               \* this.ws / this.socket: the current transport, 0 = null
    socks,            \* every WebSocket object created: readyState, listeners
    node_id, conn_id, \* this.node_id, this.conn_id
    connected_at,     \* stats.connected_at is set
    authenticated_at, \* stats.authenticated_at is set
    heloW, authW,     \* js1: pending _waitForControl("helo") / (auth) promises
    connected,        \* mjs: this.connected
    calls,            \* mjs: the promises connect()/reconnect() returned
    lsn,              \* mjs: once-listeners of 'connected' and 'auth_failed'
    tasks,            \* mjs: handler invocations deferred by setTimeout(fn, 0)
    slots,            \* the promises join/leave requests returned, and their timers
    pendingJoins,     \* this.pendingJoins: a Map, as a set of [key, req] entries
    pendingLeaves,    \* this.pendingLeaves
    groups,           \* this.groups: the group identifiers held
    handlers,         \* the handler registry of the Group object of each identifier
    disc,             \* code carried by the disconnected signal of the latest step
    made,             \* identifiers a Group object was constructed for in the latest step
    invoked,          \* handler and listener invocations of the latest step
    last,             \* the operation or event of the latest step
    out,              \* frames handed to a transport in the latest step
    signals,          \* signals emitted in the latest step
    stats,            \* this.stats: the message counters (pan-agent.js)
    ret               \* calls that returned, resolved or rejected in the latest step

vars == <<variant, state, ws, socks, node_id, conn_id, connected_at,
          authenticated_at, heloW, authW, connected, calls, lsn, tasks,
          slots, pendingJoins, pendingLeaves, groups, handlers, disc,
          made, invoked, last, out, signals, stats, ret>>

agentVars == <<state, ws, node_id, conn_id, connected_at, authenticated_at>>
mjsVars == <<connected, calls, lsn, tasks>>
grpVars == <<slots, pendingJoins, pendingLeaves, groups, handlers>>

\* close codes: close()'s default and another the caller may pass; the code a
\* transport reports with its close event
CloseCodes == {DefaultCloseCode, DefaultCloseCode + 1}
WsCloseCode == DefaultCloseCode + 6
NoCode == 0

\* the ttl and spread a caller passes in opts: {} is omitted, {n} a number
\* (negative, in range, larger than max_ttl)
TtlRequests == {{}, {0 - 1}, {default_ttl + 1}, {max_ttl + 1}}
SpreadRequests == {{}, {0}, {1}}

ReqIds == 1..MaxReqs
Groups == 1..MaxGroups
FreeSlot == [kind |-> "none", group |-> 0, st |-> "free", h |-> TRUE, hs |-> {}]
\* a request whose promise is unsettled and whose timer is armed; h: every
\* handler the caller passed is a function; hs: the handlers its closure keeps
Pending(kind, g, h) == [kind |-> kind, group |-> g, st |-> "pending", h |-> h, hs |-> {}]
FreeReqs == {r \in ReqIds : slots[r].st = "free"}
NewReq == CHOOSE r \in FreeReqs : \A q \in FreeReqs : r <= q
\* a Map.delete that removes nothing
MapDelete_kept(tbl, k) == tbl

\* Map.set, Map.delete and Map.get on a table of [key, req] entries
MapSet(tbl, k, r) == {e \in tbl : e.key # k} \cup {[key |-> k, req |-> r]}
MapDelete(tbl, k) == {e \in tbl : e.key # k}
MapGet(tbl, k) == {e.req : e \in {x \in tbl : x.key = k}}
\* the settling of request r
ReqRet(op, res, r) == [op |-> op, res |-> res, req |-> r]
\* join_group_reply / leave_group_reply frames: payload.group, payload.status
ReplySubs == {"join_group_reply", "leave_group_reply"}
\* pan-agent.mjs keys its requests by a fresh msg_id: they do not interact
MjsReqIds == {r \in ReqIds : r <= MjsMaxReqs}
MjsFreeReqs == FreeReqs \cap MjsReqIds
MjsNewReq == CHOOSE r \in MjsFreeReqs : \A q \in MjsFreeReqs : r <= q
MjsReplyFrames ==
    {[type |-> "control", sub |-> "join_group_reply", node |-> NULL_ID,
      conn |-> NULL_ID, req |-> r, status |-> st] :
        r \in MjsReqIds, st \in {"ok", "failed"}}
Js1ReplyFrames ==
    {[type |-> "control", sub |-> s, node |-> NULL_ID, conn |-> NULL_ID,
      group |-> g, status |-> st] :
        s \in ReplySubs, g \in Groups, st \in {"ok", "failed"}}

\* message types, and the handlers objects a caller passes (their keys)
MsgTypes == 1..MaxTypes
HandlerSets == SUBSET MsgTypes
MjsHandlerSets == {hs \in HandlerSets : \A m \in hs : m <= MjsMaxTypes}
\* the group a frame may name: one the caller uses, or one it never joins
FrameGroups == 1..(MaxGroups + 1)
\* inbound application frames: direct, and broadcast with its group and
\* message type
AppFrames ==
    {[type |-> "direct", sub |-> "app", node |-> NULL_ID, conn |-> NULL_ID,
      group |-> 0, mtype |-> m] : m \in MsgTypes} \cup
    {[type |-> "broadcast", sub |-> "app", node |-> NULL_ID, conn |-> NULL_ID,
      group |-> g, mtype |-> m] : g \in FrameGroups, m \in MsgTypes}
DirectFrames == {f \in AppFrames : f.type = "direct"}
BroadcastFrames == {f \in AppFrames : f.type = "broadcast"}
\* the payload of a join_group / leave_group request
Payload(g, types) == [group |-> g, types |-> types]
\* the invocation of the handler of group g for message type m
Handler(g, m) == [group |-> g, mtype |-> m]

Ev(name, s, f) == [ev |-> name, sock |-> s, frame |-> f, arg |-> 0]
\* an API call and its argument
Call(name, a) == [ev |-> name, sock |-> 0, frame |-> NoFrame, arg |-> a]
Ret(op, res) == [op |-> op, res |-> res]

FreeSocks == {t \in SockIds : socks[t].rs = "NONE"}
NewSock == CHOOSE t \in FreeSocks : \A u \in FreeSocks : t <= u

IsOpen(t) == t # 0 /\ socks[t].rs = "OPEN"

\* a close() that the transport ignores
WsClose_ignored(rs) == rs

\* the ws package's WebSocket.close(): a socket that has not opened aborts its
\* handshake (error and close events follow), an open one starts closing
WsClose(rs) ==
    CASE rs = "CONNECTING" -> "ABORTING"
      [] rs = "OPEN" -> "CLOSING"
      [] OTHER -> rs

\* a socket on which the peer's frames can still arrive
Delivers(t) == socks[t].rs \in {"OPEN", "CLOSING"}
\* a socket that can still report an error, or its close
CanFail(t) == socks[t].rs \in {"CONNECTING", "OPEN", "CLOSING", "ABORTING"}
CanClose(t) == socks[t].rs \in {"OPEN", "CLOSING", "FAILED"}

Repeat(n, x) == [i \in 1..n |-> x]
Range(q) == {q[i] : i \in DOMAIN q}

\* this.stats as the constructor leaves it (lines 94-103, 627-636): every
\* counter 0.  kept: the model follows the counters; where it does not, they
\* stay at NoStats, which stands for any values
StatTypes == {"direct", "group", "control", "unknown", "broadcast"}
ZeroStats ==
    [kept |-> TRUE, msgs_in_total |-> 0, msgs_out_total |-> 0,
     msgs_in_by_type |-> [k \in StatTypes |-> 0],
     msgs_out_by_type |-> [k \in StatTypes |-> 0]]
NoStats == [ZeroStats EXCEPT !.kept = FALSE]

Constructed ==
    /\ variant \in Variants
    /\ state = IF variant = "mjs" THEN "undefined" ELSE "DISCONNECTED"
    /\ ws = 0
    /\ socks = [t \in SockIds |-> NoSock]
    /\ node_id = NULL_ID /\ conn_id = NULL_ID
    /\ connected_at = FALSE /\ authenticated_at = FALSE
    /\ heloW = 0 /\ authW = 0
    /\ connected = FALSE
    /\ calls = <<>> /\ lsn = {} /\ tasks = <<>>
    /\ slots = [r \in ReqIds |-> FreeSlot]
    /\ pendingJoins = {} /\ pendingLeaves = {} /\ groups = {}
    /\ handlers = [g \in Groups |-> {}]
    /\ disc = NoCode
    /\ made = {} /\ invoked = <<>>
    /\ last = Ev("new", 0, NoFrame)
    /\ out = <<>> /\ signals = <<>> /\ ret = <<>>

Init == Constructed /\ stats = NoStats

\* ------------------------------------------------------------- statistics
\* const t = msg.type || "unknown"
StatKey(f) == IF f.type \in StatTypes THEN f.type ELSE "unknown"

\* the message listeners (lines 318-321, 651-654): msgs_in_total++, then
\* msgs_in_by_type[t]++
CountIn(st, f) ==
    IF ~st.kept THEN st
    ELSE [st EXCEPT !.msgs_in_total = @ + 1,
                    !.msgs_in_by_type[StatKey(f)] = @ + 1]

\* _sendRaw (lines 306-308) and send_msg (894-896), once per frame handed to
\* the transport: msgs_out_total++, msgs_out_by_type[t]++
RECURSIVE CountOut(_, _)
CountOut(st, q) ==
    IF ~st.kept \/ q = <<>> THEN st
    ELSE CountOut([st EXCEPT !.msgs_out_total = @ + 1,
                             !.msgs_out_by_type[StatKey(Head(q))] = @ + 1],
                  Tail(q))

\* the counters the model follows stay within its bound
Within(st) == st.msgs_in_total <= MaxCount /\ st.msgs_out_total <= MaxCount

\* a step of pan-agent.js that received frame f, and one that did not (it
\* may have sent the frames of out)
Js_received(f) == stats' = CountIn(stats, f) /\ Within(stats')
Js_sent == stats' = CountOut(stats, out') /\ Within(stats')

\* ===================================================================== js1
\* src/pan-agent.js lines 1-418

Js1_makeControl(sub) ==
    [type |-> "control", sub |-> sub, node |-> node_id, conn |-> conn_id]

\* _sendRaw's ttl: ttl is {} for undefined, {n} for a number
Js1_effectiveTtl(st, ttl) ==
    LET t == IF ttl = {} THEN default_ttl ELSE CHOOSE n \in ttl : TRUE
        lo == IF max_ttl < t THEN max_ttl ELSE t
    IN  IF st = "AUTHENTICATED" THEN (IF lo < 0 THEN 0 ELSE lo) ELSE 1

\* msg.from when the caller's message has none (_sendRaw lines 295-300)
Js1_from ==
    IF state = "AUTHENTICATED" THEN [node |-> node_id, conn |-> conn_id]
    ELSE [node |-> NULL_ID, conn |-> NULL_ID]

\* the message send_direct / send_group build: no from, no msg_id, no spread
Js1_appMsg(type) ==
    [type |-> type, sub |-> "app", node |-> Js1_from.node, conn |-> Js1_from.conn]

\* the frame _sendRaw hands to this.ws (msg.from is set by _makeControl, or
\* by Js1_from); mid: the frame has a msg_id; spread: {} is no spread field
Js1_sendRaw(msg, ttl) ==
    [sock |-> ws, type |-> msg.type, sub |-> msg.sub,
     ttl |-> Js1_effectiveTtl(state, ttl), node |-> msg.node, conn |-> msg.conn,
     spread |-> {}, mid |-> TRUE]

\* connect() without its state check
Js1_connectAllowed_unchecked == TRUE

Js1_connectAllowed == state = "DISCONNECTED"

Js1_connect ==
    /\ variant = "js1"
    /\ \/ /\ ~Js1_connectAllowed
          /\ ret' = <<Ret("connect", "InvalidState")>>
          /\ UNCHANGED <<agentVars, socks>>
       \/ /\ Js1_connectAllowed
          /\ FreeSocks # {}
          /\ state' = "CONNECTING"
          /\ ws' = NewSock
          /\ socks' = [socks EXCEPT ![NewSock] =
                          [rs |-> "CONNECTING", bound |-> FALSE, ow |-> TRUE, by |-> 0, seen |-> {}]]
          /\ ret' = <<>>
          /\ UNCHANGED <<node_id, conn_id, connected_at, authenticated_at>>
    /\ last' = Ev("connect", 0, NoFrame)
    /\ disc' = NoCode
    /\ made' = {} /\ invoked' = <<>>
    /\ out' = <<>> /\ signals' = <<>>
    /\ UNCHANGED <<variant, grpVars, heloW, authW, mjsVars>>
    /\ Js_sent

\* the socket's open event: the once("open") listener resolves the promise
\* connect() awaits; connect() then binds this.ws, sends helo and waits
Js1_onOpen(t) ==
    /\ variant = "js1"
    /\ socks[t].rs = "CONNECTING"
    /\ LET opened == [socks EXCEPT ![t].rs = "OPEN", ![t].ow = FALSE]
       IN  IF ~socks[t].ow
           THEN /\ socks' = opened
                /\ out' = <<>> /\ ret' = <<>>
                /\ UNCHANGED heloW
           ELSE IF ws = 0
           THEN /\ socks' = opened
                /\ out' = <<>> /\ ret' = <<Ret("connect", "TypeError")>>
                /\ UNCHANGED heloW
           ELSE /\ socks' = [opened EXCEPT ![ws].bound = TRUE]
                /\ IF opened[ws].rs = "OPEN"
                   THEN /\ out' = <<Js1_sendRaw(Js1_makeControl("helo"), {1})>>
                        /\ heloW' = heloW + 1
                        /\ ret' = <<>>
                   ELSE /\ out' = <<>>
                        /\ ret' = <<Ret("connect", "NotOpen")>>
                        /\ UNCHANGED heloW
    /\ last' = Ev("open", t, NoFrame)
    /\ disc' = NoCode
    /\ made' = {} /\ invoked' = <<>>
    /\ signals' = <<>>
    /\ UNCHANGED <<variant, grpVars, agentVars, authW, mjsVars>>
    /\ Js_sent

\* the 8000 ms timer of connect()
Js1_connectTimer(t) ==
    /\ variant = "js1"
    /\ socks[t].rs = "CONNECTING" /\ socks[t].ow
    /\ socks' = [socks EXCEPT ![t].ow = FALSE]
    /\ ret' = <<Ret("connect", "ConnectTimeout")>>
    /\ last' = Ev("connectTimer", t, NoFrame)
    /\ disc' = NoCode
    /\ made' = {} /\ invoked' = <<>>
    /\ out' = <<>> /\ signals' = <<>>
    /\ UNCHANGED <<variant, grpVars, agentVars, heloW, authW, mjsVars>>
    /\ Js_sent

Js1_authAllowed == state = "CONNECTED_UNTRUSTED"

Js1_authenticate ==
    /\ variant = "js1"
    /\ \/ /\ ~Js1_authAllowed
          /\ ret' = <<Ret("authenticate", "InvalidState")>>
          /\ out' = <<>>
          /\ UNCHANGED <<state, authW>>
       \/ /\ Js1_authAllowed
          /\ ~IsOpen(ws)
          /\ ret' = <<Ret("authenticate", "NotOpen")>>
          /\ out' = <<>>
          /\ UNCHANGED <<state, authW>>
       \/ /\ Js1_authAllowed
          /\ IsOpen(ws)
          /\ out' = <<Js1_sendRaw(Js1_makeControl("auth"), {1})>>
          /\ state' = "AUTHENTICATING"
          /\ authW' = authW + 1
          /\ ret' = <<>>
    /\ last' = Ev("authenticate", 0, NoFrame)
    /\ disc' = NoCode
    /\ made' = {} /\ invoked' = <<>>
    /\ signals' = <<>>
    /\ UNCHANGED <<variant, grpVars, ws, socks, node_id, conn_id, connected_at,
                   authenticated_at, heloW, mjsVars>>
    /\ Js_sent

\* the timer of a pending _waitForControl: the promise rejects, nothing else
Js1_waitForControlTimer ==
    /\ variant = "js1"
    /\ \/ /\ heloW > 0
          /\ heloW' = heloW - 1
          /\ ret' = <<Ret("connect", "HandshakeTimeout")>>
          /\ UNCHANGED authW
       \/ /\ authW > 0
          /\ authW' = authW - 1
          /\ ret' = <<Ret("authenticate", "RequestTimeout")>>
          /\ UNCHANGED heloW
    /\ last' = Ev("waitTimer", 0, NoFrame)
    /\ disc' = NoCode
    /\ made' = {} /\ invoked' = <<>>
    /\ out' = <<>> /\ signals' = <<>>
    /\ UNCHANGED <<variant, grpVars, agentVars, socks, mjsVars>>
    /\ Js_sent

\* connect() after its _waitForControl("helo") resolved
Js1_afterHelo ==
    /\ state' = "CONNECTED_UNTRUSTED"
    /\ connected_at' = TRUE
    /\ signals' = <<"control">> \o Repeat(heloW, "helo")
    /\ ret' = Repeat(heloW, Ret("connect", "ok"))
    /\ heloW' = 0
    /\ UNCHANGED <<node_id, conn_id, authenticated_at, authW>>

\* authenticate() that throws on auth.failed without resetting the state
Js1_afterAuth_noReset(f) ==
    /\ IF f.sub = "auth.failed"
       THEN /\ signals' = <<"control">> \o Repeat(authW, "auth_failed")
            /\ ret' = Repeat(authW, Ret("authenticate", "AuthenticationFailed"))
            /\ UNCHANGED <<state, node_id, conn_id, authenticated_at>>
       ELSE /\ node_id' = f.node
            /\ conn_id' = f.conn
            /\ state' = "AUTHENTICATED"
            /\ authenticated_at' = TRUE
            /\ signals' = <<"control">> \o Repeat(authW, "authenticated")
            /\ ret' = Repeat(authW, Ret("authenticate", "ok"))
    /\ authW' = 0
    /\ UNCHANGED <<connected_at, heloW>>

\* authenticate() after its _waitForControl(["auth.ok","auth.failed"]) resolved
Js1_afterAuth(f) ==
    /\ IF f.sub = "auth.failed"
       THEN /\ signals' = <<"control">> \o Repeat(authW, "auth_failed")
            /\ state' = "CONNECTED_UNTRUSTED"
            /\ ret' = Repeat(authW, Ret("authenticate", "AuthenticationFailed"))
            /\ UNCHANGED <<node_id, conn_id, authenticated_at>>
       ELSE /\ node_id' = f.node
            /\ conn_id' = f.conn
            /\ state' = "AUTHENTICATED"
            /\ authenticated_at' = TRUE
            /\ signals' = <<"control">> \o Repeat(authW, "authenticated")
            /\ ret' = Repeat(authW, Ret("authenticate", "ok"))
    /\ authW' = 0
    /\ UNCHANGED <<connected_at, heloW>>

\* _handleControl on join_group_reply / leave_group_reply: the entry of the
\* reply's group, if there is one, is removed, its timer cleared and its
\* promise settled
Js1_handleReply(f) ==
    LET join == f.sub = "join_group_reply"
        tbl == IF join THEN pendingJoins ELSE pendingLeaves
        op == IF join THEN "join_group" ELSE "leave_group"
        p == MapGet(tbl, f.group)
    IN  IF p = {}
        THEN /\ signals' = <<"control">>
             /\ ret' = <<>>
             /\ UNCHANGED grpVars
        ELSE LET r == CHOOSE r \in p : TRUE
             IN  /\ slots' = [slots EXCEPT ![r] = FreeSlot]
                 /\ IF join
                    THEN pendingJoins' = MapDelete(tbl, f.group) /\ UNCHANGED pendingLeaves
                    ELSE pendingLeaves' = MapDelete(tbl, f.group) /\ UNCHANGED pendingJoins
                 /\ IF f.status = "ok"
                    THEN /\ signals' = <<"control", IF join THEN "group.joined" ELSE "group.left">>
                         /\ ret' = <<ReqRet(op, "ok", r)>>
                    ELSE /\ signals' = <<"control">>
                         /\ ret' = <<ReqRet(op, IF join THEN "JoinFailed" ELSE "LeaveFailed", r)>>
                 /\ UNCHANGED <<groups, handlers>>

\* a _dispatch that does not look at the frame's msg_type
Js1_group_dispatch_anyType(f) ==
    IF handlers[f.group] # {}
    THEN <<Handler(f.group, CHOOSE m \in handlers[f.group] : TRUE)>>
    ELSE <<>>

\* GroupHandle._dispatch: the handler registered for the frame's msg_type
Js1_group_dispatch(f) ==
    IF f.mtype \in handlers[f.group] THEN <<Handler(f.group, f.mtype)>> ELSE <<>>

\* _dispatch of a direct or broadcast frame
Js1_dispatch(f) ==
    IF f.type = "direct"
    THEN /\ signals' = <<"direct">>
         /\ invoked' = <<>>
    ELSE /\ invoked' = IF f.group \in groups THEN Js1_group_dispatch(f) ELSE <<>>
         /\ signals' = <<"group">>

\* the "message" listener of _bindSocket: _dispatch, _handleControl, and the
\* continuations of the _waitForControl promises the frame resolves
Js1_onMessage(t, f) ==
    /\ variant = "js1"
    /\ socks[t].bound /\ Delivers(t)
    /\ socks' = [socks EXCEPT ![t].seen = @ \cup ({f.sub} \cap SeenSubs)]
    /\ IF f.type # "control"
       THEN /\ Js1_dispatch(f)
            /\ ret' = <<>>
            /\ UNCHANGED <<grpVars, state, node_id, conn_id, connected_at,
                           authenticated_at, heloW, authW>>
       ELSE IF f.sub \in ReplySubs
       THEN /\ Js1_handleReply(f)
            /\ invoked' = <<>>
            /\ UNCHANGED <<state, node_id, conn_id, connected_at,
                           authenticated_at, heloW, authW>>
       ELSE /\ UNCHANGED grpVars
            /\ invoked' = <<>>
            /\ IF f.sub = "helo" /\ heloW > 0
               THEN Js1_afterHelo
               ELSE IF f.sub \in {"auth.ok", "auth.failed"} /\ authW > 0
               THEN Js1_afterAuth(f)
               ELSE /\ signals' = <<"control">>
                    /\ ret' = <<>>
                    /\ UNCHANGED <<state, node_id, conn_id, connected_at,
                                   authenticated_at, heloW, authW>>
    /\ last' = Ev("message", t, f)
    /\ disc' = NoCode
    /\ made' = {}
    /\ out' = <<>>
    /\ UNCHANGED <<variant, ws, mjsVars>>
    /\ Js_received(f)

\* the socket's error event: rejects the promise connect() awaits (once
\* "error"), and, once bound, is re-emitted as the agent's error signal
Js1_onError(t) ==
    /\ variant = "js1"
    /\ CanFail(t)
    /\ socks' = [socks EXCEPT ![t].rs = "FAILED", ![t].ow = FALSE]
    /\ ret' = IF socks[t].ow THEN <<Ret("connect", "TransportError")>> ELSE <<>>
    /\ signals' = IF socks[t].bound THEN <<"error">> ELSE <<>>
    /\ last' = Ev("error", t, NoFrame)
    /\ disc' = NoCode
    /\ made' = {} /\ invoked' = <<>>
    /\ out' = <<>>
    /\ UNCHANGED <<variant, grpVars, agentVars, heloW, authW, mjsVars>>
    /\ Js_sent

\* the "close" listener of _bindSocket
Js1_onClose(t) ==
    /\ variant = "js1"
    /\ CanClose(t)
    /\ socks' = [socks EXCEPT ![t] = ClosedSock]
    /\ IF socks[t].bound
       THEN /\ state' = "DISCONNECTED"
            /\ signals' = <<"disconnected">>
       ELSE /\ signals' = <<>>
            /\ UNCHANGED state
    /\ last' = Ev("close", t, NoFrame)
    /\ disc' = IF "disconnected" \in Range(signals') THEN WsCloseCode ELSE NoCode
    /\ made' = {} /\ invoked' = <<>>
    /\ out' = <<>> /\ ret' = <<>>
    /\ UNCHANGED <<variant, grpVars, ws, node_id, conn_id, connected_at,
                   authenticated_at, heloW, authW, mjsVars>>
    /\ Js_sent

Js1_close(code) ==
    /\ variant = "js1"
    /\ socks' = IF ws # 0 THEN [socks EXCEPT ![ws].rs = WsClose(@)] ELSE socks
    /\ ws' = 0
    /\ state' = "DISCONNECTED"
    /\ signals' = <<"disconnected">>
    /\ ret' = <<Ret("close", "ok")>>
    /\ last' = Call("close()", code)
    /\ disc' = code
    /\ made' = {} /\ invoked' = <<>>
    /\ out' = <<>>
    /\ UNCHANGED <<variant, grpVars, node_id, conn_id, connected_at, authenticated_at,
                   heloW, authW, mjsVars>>
    /\ Js_sent

\* send_direct / send_group (GroupHandle.send calls send_group)
Js1_send(type, ttl) ==
    /\ variant = "js1"
    /\ IF state # "AUTHENTICATED"
       THEN /\ ret' = <<Ret("send", "NotAuthenticated")>>
            /\ out' = <<>>
       ELSE IF ~IsOpen(ws)
       THEN /\ ret' = <<Ret("send", "NotOpen")>>
            /\ out' = <<>>
       ELSE /\ ret' = <<Ret("send", "ok")>>
            /\ out' = <<Js1_sendRaw(Js1_appMsg(type), ttl)>>
    /\ last' = Call("send", [type |-> type, ttl |-> ttl, spread |-> {}])
    /\ disc' = NoCode
    /\ made' = {} /\ invoked' = <<>>
    /\ signals' = <<>>
    /\ UNCHANGED <<variant, grpVars, agentVars, socks, heloW, authW, mjsVars>>
    /\ Js_sent

\* join_group that builds a new GroupHandle for every call
Js1_heldGroup_none(g) == FALSE

\* this.groups.get(gId): the group is held
Js1_heldGroup(g) == g \in groups

\* join_group(groupId, msgHandlers); hs: the keys of msgHandlers.  The group
\* held for the identifier is reused, or a GroupHandle made; the handlers are
\* set on it by message type, and the request lists every key of its registry
Js1_join_group(g, hs) ==
    /\ variant = "js1"
    /\ (state = "AUTHENTICATED" /\ IsOpen(ws)) => FreeReqs # {}
    /\ IF state # "AUTHENTICATED"
       THEN /\ ret' = <<Ret("join_group", "NotAuthenticated")>>
            /\ out' = <<>>
            /\ made' = {}
            /\ UNCHANGED grpVars
       ELSE /\ groups' = groups \cup {g}
            /\ made' = IF Js1_heldGroup(g) THEN {} ELSE {g}
            /\ handlers' = [handlers EXCEPT ![g] =
                                (IF Js1_heldGroup(g) THEN @ ELSE {}) \cup hs]
            /\ IF ~IsOpen(ws)
               THEN /\ ret' = <<Ret("join_group", "NotOpen")>>
                    /\ out' = <<>>
                    /\ UNCHANGED <<slots, pendingJoins, pendingLeaves>>
               ELSE /\ out' = <<Js1_sendRaw(Js1_makeControl("join_group"), {})
                                    @@ Payload(g, handlers'[g])>>
                    /\ slots' = [slots EXCEPT ![NewReq] = Pending("join", g, TRUE)]
                    /\ pendingJoins' = MapSet(pendingJoins, g, NewReq)
                    /\ ret' = <<>>
                    /\ UNCHANGED pendingLeaves
    /\ last' = Call("join_group", [group |-> g, hs |-> hs])
    /\ disc' = NoCode
    /\ invoked' = <<>>
    /\ signals' = <<>>
    /\ UNCHANGED <<variant, agentVars, socks, heloW, authW, mjsVars>>
    /\ Js_sent

\* leave_group(groupId): no state check
Js1_leave_group(g) ==
    /\ variant = "js1"
    /\ IsOpen(ws) => FreeReqs # {}
    /\ IF ~IsOpen(ws)
       THEN /\ ret' = <<Ret("leave_group", "NotOpen")>>
            /\ out' = <<>>
            /\ UNCHANGED grpVars
       ELSE /\ out' = <<Js1_sendRaw(Js1_makeControl("leave_group"), {})
                            @@ Payload(g, {})>>
            /\ slots' = [slots EXCEPT ![NewReq] = Pending("leave", g, TRUE)]
            /\ pendingLeaves' = MapSet(pendingLeaves, g, NewReq)
            /\ ret' = <<>>
            /\ UNCHANGED <<pendingJoins, groups, handlers>>
    /\ last' = Call("leave_group", g)
    /\ disc' = NoCode
    /\ made' = {} /\ invoked' = <<>>
    /\ signals' = <<>>
    /\ UNCHANGED <<variant, agentVars, socks, heloW, authW, mjsVars>>
    /\ Js_sent

\* the request_timeout timer of the promise of request r: it deletes the
\* table's entry of the request's group and rejects
Js1_requestTimer(r) ==
    /\ variant = "js1"
    /\ slots[r].st = "pending"
    /\ slots' = [slots EXCEPT ![r] = FreeSlot]
    /\ IF slots[r].kind = "join"
       THEN /\ pendingJoins' = MapDelete(pendingJoins, slots[r].group)
            /\ ret' = <<ReqRet("join_group", "RequestTimeout", r)>>
            /\ UNCHANGED pendingLeaves
       ELSE /\ pendingLeaves' = MapDelete(pendingLeaves, slots[r].group)
            /\ ret' = <<ReqRet("leave_group", "RequestTimeout", r)>>
            /\ UNCHANGED pendingJoins
    /\ last' = Ev("requestTimer", r, NoFrame)
    /\ disc' = NoCode
    /\ made' = {} /\ invoked' = <<>>
    /\ out' = <<>> /\ signals' = <<>>
    /\ UNCHANGED <<variant, agentVars, socks, groups, handlers, heloW, authW, mjsVars>>
    /\ Js_sent

\* GroupHandle.off(msgType) on the group held for g
Js1_group_off(g, m) ==
    /\ variant = "js1"
    /\ g \in groups
    /\ handlers' = [handlers EXCEPT ![g] = @ \ {m}]
    /\ last' = Call("off", [group |-> g, mtype |-> m])
    /\ disc' = NoCode
    /\ made' = {} /\ invoked' = <<>>
    /\ out' = <<>> /\ signals' = <<>> /\ ret' = <<>>
    /\ UNCHANGED <<variant, agentVars, socks, slots, pendingJoins, pendingLeaves,
                   groups, heloW, authW, mjsVars>>
    /\ Js_sent

\* join_group(groupId) with no handlers, leave_group, their timers and replies
Js1GrpNext ==
    \/ \E g \in Groups : Js1_join_group(g, {}) \/ Js1_leave_group(g)
    \/ \E r \in ReqIds : Js1_requestTimer(r)
    \/ \E t \in SockIds, f \in Js1ReplyFrames : Js1_onMessage(t, f)

\* join_group with handlers and its timer, GroupHandle.off, and inbound
\* application frames
Js1HandlerNext ==
    \/ \E g \in Groups, hs \in HandlerSets : Js1_join_group(g, hs)
    \/ \E r \in ReqIds : Js1_requestTimer(r)
    \/ \E g \in Groups, m \in MsgTypes : Js1_group_off(g, m)
    \/ \E t \in SockIds, f \in AppFrames : Js1_onMessage(t, f)

Js1SendNext ==
    \E type \in {"direct", "broadcast"}, ttl \in TtlRequests : Js1_send(type, ttl)

Js1Next ==
    \/ Js1_connect
    \/ Js1_authenticate
    \/ \E code \in CloseCodes : Js1_close(code)
    \/ Js1_waitForControlTimer
    \/ \E t \in SockIds :
          \/ Js1_onOpen(t)
          \/ Js1_connectTimer(t)
          \/ Js1_onError(t)
          \/ Js1_onClose(t)
          \/ \E f \in InFrames : Js1_onMessage(t, f)

\* ===================================================================== js2
\* src/pan-agent.js lines 420-930

Js2_createControlMessage(sub) ==
    [type |-> "control", sub |-> sub, spread |-> {}]

\* send_msg's ttl: ttl is {} for undefined, {n} for a number
Js2_ttl(type, ttl) ==
    IF type = "control" THEN 1
    ELSE IF ttl = {} THEN default_ttl
    ELSE LET n == CHOOSE n \in ttl : TRUE
         IN  IF n < max_ttl THEN n ELSE max_ttl

\* send_msg's spread: a broadcast whose spread is not a number gets its ttl
Js2_spread(type, spread, ttl) ==
    IF type = "broadcast" /\ spread = {} THEN {Js2_ttl(type, ttl)} ELSE spread

\* the packet send_msg hands to this.ws
Js2_send_msg(msg, ttl) ==
    [sock |-> ws, type |-> msg.type, sub |-> msg.sub,
     ttl |-> Js2_ttl(msg.type, ttl), node |-> node_id, conn |-> conn_id,
     spread |-> Js2_spread(msg.type, msg.spread, ttl), mid |-> TRUE]

Js2_connectAllowed == state = "DISCONNECTED"

Js2_connect ==
    /\ variant = "js2"
    /\ \/ /\ ~Js2_connectAllowed
          /\ ret' = <<Ret("connect", "InvalidState")>>
          /\ UNCHANGED <<agentVars, socks>>
       \/ /\ Js2_connectAllowed
          /\ FreeSocks # {}
          /\ state' = "CONNECTING"
          /\ ws' = NewSock
          /\ socks' = [socks EXCEPT ![NewSock] =
                          [rs |-> "CONNECTING", bound |-> FALSE, ow |-> TRUE, by |-> 0, seen |-> {}]]
          /\ ret' = <<>>
          /\ UNCHANGED <<node_id, conn_id, connected_at, authenticated_at>>
    /\ last' = Ev("connect", 0, NoFrame)
    /\ disc' = NoCode
    /\ made' = {} /\ invoked' = <<>>
    /\ out' = <<>> /\ signals' = <<>>
    /\ UNCHANGED <<variant, grpVars, heloW, authW, mjsVars>>
    /\ Js_sent

\* the socket's open event: connect() resumes, calls setup_websocket, sends
\* helo and returns
Js2_onOpen(t) ==
    /\ variant = "js2"
    /\ socks[t].rs = "CONNECTING"
    /\ LET opened == [socks EXCEPT ![t].rs = "OPEN", ![t].ow = FALSE]
       IN  IF ~socks[t].ow
           THEN /\ socks' = opened
                /\ out' = <<>> /\ ret' = <<>>
           ELSE IF ws = 0
           THEN /\ socks' = opened
                /\ out' = <<>> /\ ret' = <<Ret("connect", "TypeError")>>
           ELSE /\ socks' = [opened EXCEPT ![ws].bound = TRUE]
                /\ IF opened[ws].rs = "OPEN"
                   THEN /\ out' = <<Js2_send_msg(Js2_createControlMessage("helo"), {})>>
                        /\ ret' = <<Ret("connect", "ok")>>
                   ELSE /\ out' = <<>>
                        /\ ret' = <<Ret("connect", "NotOpen")>>
    /\ last' = Ev("open", t, NoFrame)
    /\ disc' = NoCode
    /\ made' = {} /\ invoked' = <<>>
    /\ signals' = <<>>
    /\ UNCHANGED <<variant, grpVars, agentVars, heloW, authW, mjsVars>>
    /\ Js_sent

Js2_connectTimer(t) ==
    /\ variant = "js2"
    /\ socks[t].rs = "CONNECTING" /\ socks[t].ow
    /\ socks' = [socks EXCEPT ![t].ow = FALSE]
    /\ ret' = <<Ret("connect", "ConnectTimeout")>>
    /\ last' = Ev("connectTimer", t, NoFrame)
    /\ disc' = NoCode
    /\ made' = {} /\ invoked' = <<>>
    /\ out' = <<>> /\ signals' = <<>>
    /\ UNCHANGED <<variant, grpVars, agentVars, heloW, authW, mjsVars>>
    /\ Js_sent

\* authenticate() that only refuses a closed agent
Js2_authAllowed_lax == state # "DISCONNECTED"

Js2_authAllowed == state = "CONNECTED_UNTRUSTED"

\* authenticate() is synchronous: it sends and returns
Js2_authenticate ==
    /\ variant = "js2"
    /\ \/ /\ ~Js2_authAllowed
          /\ ret' = <<Ret("authenticate", "InvalidState")>>
          /\ out' = <<>>
          /\ UNCHANGED state
       \/ /\ Js2_authAllowed
          /\ ~IsOpen(ws)
          /\ ret' = <<Ret("authenticate", "NotOpen")>>
          /\ out' = <<>>
          /\ UNCHANGED state
       \/ /\ Js2_authAllowed
          /\ IsOpen(ws)
          /\ out' = <<Js2_send_msg(Js2_createControlMessage("auth"), {})>>
          /\ state' = "AUTHENTICATING"
          /\ ret' = <<Ret("authenticate", "returned")>>
    /\ last' = Ev("authenticate", 0, NoFrame)
    /\ disc' = NoCode
    /\ made' = {} /\ invoked' = <<>>
    /\ signals' = <<>>
    /\ UNCHANGED <<variant, grpVars, ws, socks, node_id, conn_id, connected_at,
                   authenticated_at, heloW, authW, mjsVars>>
    /\ Js_sent

Js2_handle_auth_result(f) ==
    IF f.sub = "auth.failed"
    THEN /\ signals' = <<"control", "auth_failed", "message_received">>
         /\ state' = "CONNECTED_UNTRUSTED"
         /\ UNCHANGED <<node_id, conn_id, authenticated_at>>
    ELSE /\ node_id' = f.node
         /\ conn_id' = f.conn
         /\ state' = "AUTHENTICATED"
         /\ authenticated_at' = TRUE
         /\ signals' = <<"control", "auth_success", "message_received">>

\* handle_join_group_reply: join_complete of the group held for the reply's
\* group; with no such group the handler throws, and the message listener's
\* catch ends the dispatch before message_received
Js2_handle_join_group_reply(f) ==
    /\ signals' = IF f.group \in groups
                  THEN <<"control", "membership_updated", "message_received">>
                  ELSE <<"control">>
    /\ UNCHANGED grpVars

\* handle_leave_group_reply: leave_complete (message_types.clear(), group_left)
\* and this.groups.delete, whatever the reply's status
Js2_handle_leave_group_reply(f) ==
    IF f.group \in groups
    THEN /\ handlers' = [handlers EXCEPT ![f.group] = {}]
         /\ groups' = groups \ {f.group}
         /\ signals' = <<"control", "group_left", "message_received">>
         /\ UNCHANGED <<slots, pendingJoins, pendingLeaves>>
    ELSE /\ signals' = <<"control">>
         /\ UNCHANGED grpVars

\* a dispatch_control_message whose switch treats an unknown subtype as helo
Js2_dispatch_control_message_asHelo(f) ==
    CASE f.sub \in {"helo", "other"} ->
            /\ signals' = <<"control", "helo", "message_received">>
            /\ state' = "CONNECTED_UNTRUSTED"
            /\ connected_at' = TRUE
            /\ UNCHANGED <<node_id, conn_id, authenticated_at, grpVars>>
      [] f.sub \in {"auth.ok", "auth.failed"} ->
            /\ Js2_handle_auth_result(f)
            /\ UNCHANGED <<connected_at, grpVars>>
      [] f.sub = "join_group_reply" ->
            /\ Js2_handle_join_group_reply(f)
            /\ UNCHANGED <<state, node_id, conn_id, connected_at, authenticated_at>>
      [] OTHER ->
            /\ Js2_handle_leave_group_reply(f)
            /\ UNCHANGED <<state, node_id, conn_id, connected_at, authenticated_at>>

Js2_dispatch_control_message(f) ==
    CASE f.sub = "helo" ->
            /\ signals' = <<"control", "helo", "message_received">>
            /\ state' = "CONNECTED_UNTRUSTED"
            /\ connected_at' = TRUE
            /\ UNCHANGED <<node_id, conn_id, authenticated_at, grpVars>>
      [] f.sub \in {"auth.ok", "auth.failed"} ->
            /\ Js2_handle_auth_result(f)
            /\ UNCHANGED <<connected_at, grpVars>>
      [] f.sub = "join_group_reply" ->
            /\ Js2_handle_join_group_reply(f)
            /\ UNCHANGED <<state, node_id, conn_id, connected_at, authenticated_at>>
      [] f.sub = "leave_group_reply" ->
            /\ Js2_handle_leave_group_reply(f)
            /\ UNCHANGED <<state, node_id, conn_id, connected_at, authenticated_at>>
      [] OTHER ->
            /\ signals' = <<"control", "message_received">>
            /\ UNCHANGED <<state, node_id, conn_id, connected_at, authenticated_at,
                           grpVars>>

\* PanGroup.route_group_message: this.emit(msg.to.message_type, ...) reaches
\* the handler add_message_handler registered for the type
Js2_route_group_message(f) ==
    IF f.mtype \in handlers[f.group] THEN <<Handler(f.group, f.mtype)>> ELSE <<>>

\* the "message" listener of setup_websocket: handle_inbound_message
Js2_onMessage(t, f) ==
    /\ variant = "js2"
    /\ socks[t].bound /\ Delivers(t)
    /\ socks' = [socks EXCEPT ![t].seen = @ \cup ({f.sub} \cap SeenSubs)]
    /\ CASE f.type = "direct" ->
               /\ signals' = <<"direct_message", "message_received">>
               /\ invoked' = <<>>
               /\ UNCHANGED <<state, node_id, conn_id, connected_at,
                              authenticated_at, grpVars>>
         [] f.type = "broadcast" ->
               /\ invoked' = IF f.group \in groups
                             THEN Js2_route_group_message(f) ELSE <<>>
               /\ signals' = <<"group_message", "message_received">>
               /\ UNCHANGED <<state, node_id, conn_id, connected_at,
                              authenticated_at, grpVars>>
         [] OTHER ->
               /\ Js2_dispatch_control_message(f)
               /\ invoked' = <<>>
    /\ last' = Ev("message", t, f)
    /\ disc' = NoCode
    /\ made' = {}
    /\ out' = <<>> /\ ret' = <<>>
    /\ UNCHANGED <<variant, ws, heloW, authW, mjsVars>>
    /\ Js_received(f)

Js2_onError(t) ==
    /\ variant = "js2"
    /\ CanFail(t)
    /\ socks' = [socks EXCEPT ![t].rs = "FAILED", ![t].ow = FALSE]
    /\ ret' = IF socks[t].ow THEN <<Ret("connect", "TransportError")>> ELSE <<>>
    /\ signals' = IF socks[t].bound THEN <<"error">> ELSE <<>>
    /\ last' = Ev("error", t, NoFrame)
    /\ disc' = NoCode
    /\ made' = {} /\ invoked' = <<>>
    /\ out' = <<>>
    /\ UNCHANGED <<variant, grpVars, agentVars, heloW, authW, mjsVars>>
    /\ Js_sent

Js2_onClose(t) ==
    /\ variant = "js2"
    /\ CanClose(t)
    /\ socks' = [socks EXCEPT ![t] = ClosedSock]
    /\ IF socks[t].bound
       THEN /\ state' = "DISCONNECTED"
            /\ signals' = <<"disconnected">>
       ELSE /\ signals' = <<>>
            /\ UNCHANGED state
    /\ last' = Ev("close", t, NoFrame)
    /\ disc' = IF "disconnected" \in Range(signals') THEN WsCloseCode ELSE NoCode
    /\ made' = {} /\ invoked' = <<>>
    /\ out' = <<>> /\ ret' = <<>>
    /\ UNCHANGED <<variant, grpVars, ws, node_id, conn_id, connected_at,
                   authenticated_at, heloW, authW, mjsVars>>
    /\ Js_sent

Js2_close(code) ==
    /\ variant = "js2"
    /\ socks' = IF ws # 0 THEN [socks EXCEPT ![ws].rs = WsClose(@)] ELSE socks
    /\ ws' = 0
    /\ state' = "DISCONNECTED"
    /\ signals' = <<"disconnected">>
    /\ ret' = <<Ret("close", "ok")>>
    /\ last' = Call("close()", code)
    /\ disc' = code
    /\ made' = {} /\ invoked' = <<>>
    /\ out' = <<>>
    /\ UNCHANGED <<variant, grpVars, node_id, conn_id, connected_at, authenticated_at,
                   heloW, authW, mjsVars>>
    /\ Js_sent

\* send_direct: msg.ttl is opts.ttl ?? this.default_ttl
Js2_send_direct(ttl) ==
    /\ variant = "js2"
    /\ IF state # "AUTHENTICATED"
       THEN /\ ret' = <<Ret("send", "NotAuthenticated")>>
            /\ out' = <<>>
       ELSE IF ~IsOpen(ws)
       THEN /\ ret' = <<Ret("send", "NotOpen")>>
            /\ out' = <<>>
       ELSE /\ ret' = <<Ret("send", "ok")>>
            /\ out' = <<Js2_send_msg([type |-> "direct", sub |-> "app", spread |-> {}],
                                     IF ttl = {} THEN {default_ttl} ELSE ttl)>>
    /\ last' = Call("send", [type |-> "direct", ttl |-> ttl, spread |-> {}])
    /\ disc' = NoCode
    /\ made' = {} /\ invoked' = <<>>
    /\ signals' = <<>>
    /\ UNCHANGED <<variant, grpVars, agentVars, socks, heloW, authW, mjsVars>>
    /\ Js_sent

\* opts.spread || opts.ttl: a spread of 0 counts as none
Js2_group_spread(spread, ttl) ==
    IF spread = {} \/ spread = {0} THEN ttl ELSE spread

\* PanGroup.send on a group of this agent: it calls agent.send_msg
Js2_group_send(ttl, spread) ==
    /\ variant = "js2"
    /\ IF ~IsOpen(ws)
       THEN /\ ret' = <<Ret("send", "NotOpen")>>
            /\ out' = <<>>
       ELSE /\ ret' = <<Ret("send", "ok")>>
            /\ out' = <<Js2_send_msg([type |-> "broadcast", sub |-> "app",
                                      spread |-> Js2_group_spread(spread, ttl)], ttl)>>
    /\ last' = Call("send", [type |-> "broadcast", ttl |-> ttl, spread |-> spread])
    /\ disc' = NoCode
    /\ made' = {} /\ invoked' = <<>>
    /\ signals' = <<>>
    /\ UNCHANGED <<variant, grpVars, agentVars, socks, heloW, authW, mjsVars>>
    /\ Js_sent

\* join_group that builds a new PanGroup for every call
Js2_heldGroup_none(g) == FALSE

\* this.groups.get(group_id): the group is held
Js2_heldGroup(g) == g \in groups

\* join_group(group_name, message_types); hs: the keys of message_types.  The
\* group held is reused, or a PanGroup made and held; the handlers are added
\* to it, and update_group_membership sends a join_group listing every
\* message type of the group.  It returns the group; no promise is kept.
Js2_join_group(g, hs) ==
    /\ variant = "js2"
    /\ IF state # "AUTHENTICATED"
       THEN /\ ret' = <<Ret("join_group", "NotAuthenticated")>>
            /\ out' = <<>>
            /\ made' = {}
            /\ UNCHANGED grpVars
       ELSE /\ groups' = groups \cup {g}
            /\ made' = IF Js2_heldGroup(g) THEN {} ELSE {g}
            /\ handlers' = [handlers EXCEPT ![g] =
                                (IF Js2_heldGroup(g) THEN @ ELSE {}) \cup hs]
            /\ UNCHANGED <<slots, pendingJoins, pendingLeaves>>
            /\ IF ~IsOpen(ws)
               THEN /\ ret' = <<Ret("join_group", "NotOpen")>>
                    /\ out' = <<>>
               ELSE /\ out' = <<Js2_send_msg(Js2_createControlMessage("join_group"), {})
                                    @@ Payload(g, handlers'[g])>>
                    /\ ret' = <<Ret("join_group", "ok")>>
    /\ last' = Call("join_group", [group |-> g, hs |-> hs])
    /\ disc' = NoCode
    /\ invoked' = <<>>
    /\ signals' = <<>>
    /\ UNCHANGED <<variant, agentVars, socks, heloW, authW, mjsVars>>
    /\ Js_sent

\* PanGroup.leave() on the group held for g: it sends leave_group
Js2_group_leave(g) ==
    /\ variant = "js2"
    /\ g \in groups
    /\ IF ~IsOpen(ws)
       THEN /\ ret' = <<Ret("leave_group", "NotOpen")>>
            /\ out' = <<>>
       ELSE /\ out' = <<Js2_send_msg(Js2_createControlMessage("leave_group"), {})
                            @@ Payload(g, {})>>
            /\ ret' = <<Ret("leave_group", "returned")>>
    /\ last' = Call("leave_group", g)
    /\ disc' = NoCode
    /\ made' = {} /\ invoked' = <<>>
    /\ signals' = <<>>
    /\ UNCHANGED <<variant, grpVars, agentVars, socks, heloW, authW, mjsVars>>
    /\ Js_sent

\* join_group, PanGroup.leave, their replies and inbound application frames
Js2GrpNext ==
    \/ \E g \in Groups, hs \in HandlerSets : Js2_join_group(g, hs)
    \/ \E g \in Groups : Js2_group_leave(g)
    \/ \E t \in SockIds, f \in Js1ReplyFrames \cup AppFrames : Js2_onMessage(t, f)

Js2SendNext ==
    \/ \E ttl \in TtlRequests : Js2_send_direct(ttl)
    \/ \E ttl \in TtlRequests, spread \in SpreadRequests : Js2_group_send(ttl, spread)

Js2Next ==
    \/ Js2_connect
    \/ Js2_authenticate
    \/ \E code \in CloseCodes : Js2_close(code)
    \/ \E t \in SockIds :
          \/ Js2_onOpen(t)
          \/ Js2_connectTimer(t)
          \/ Js2_onError(t)
          \/ Js2_onClose(t)
          \/ \E f \in InFrames : Js2_onMessage(t, f)

\* ===================================================================== mjs
\* src/pan-agent.mjs

\* once(eventName, fn): the listener connect() or reconnect() (kind) registers
\* for the promise of call c
Listener(ev, kind, c) == [ev |-> ev, kind |-> kind, call |-> c]

\* _sendRaw: msg.ttl ??= this.ttl; the frame goes to this.socket
Mjs_sendRaw(msg) ==
    [sock |-> ws, type |-> msg.type, sub |-> msg.sub,
     ttl |-> Mjs_ttl, node |-> msg.node, conn |-> msg.conn,
     spread |-> {}, mid |-> TRUE]

\* the auth message the open listener builds (from: NULL_ID, NULL_ID)
Mjs_authMsg ==
    [type |-> "control", sub |-> "auth", node |-> NULL_ID, conn |-> NULL_ID]

\* a promise settles once: resolve or reject of a settled one is a no-op
Settle(c, st) ==
    IF calls[c].st = "pending" THEN [calls EXCEPT ![c].st = st] ELSE calls
Settled(c, op, res) ==
    IF calls[c].st = "pending" THEN <<Ret(op, res)>> ELSE <<>>

Mjs_newSocket(c) ==
    [rs |-> "CONNECTING", bound |-> TRUE, ow |-> FALSE, by |-> c, seen |-> {}]

Mjs_connect ==
    /\ variant = "mjs"
    /\ FreeSocks # {}
    /\ LET c == Len(calls) + 1
       IN  /\ ws' = NewSock
           /\ socks' = [socks EXCEPT ![NewSock] = Mjs_newSocket(c)]
           /\ calls' = Append(calls, [kind |-> "connect", st |-> "pending"])
           /\ lsn' = lsn \cup {Listener("connected", "connect", c),
                               Listener("auth_failed", "connect", c)}
    /\ last' = Ev("connect", 0, NoFrame)
    /\ disc' = NoCode
    /\ made' = {} /\ invoked' = <<>>
    /\ out' = <<>> /\ signals' = <<>> /\ ret' = <<>>
    /\ UNCHANGED <<variant, grpVars, state, node_id, conn_id, connected_at,
                   authenticated_at, heloW, authW, connected, tasks>>
    /\ UNCHANGED stats

Mjs_disconnect ==
    /\ variant = "mjs"
    /\ IF ws = 0
       THEN /\ ret' = <<Ret("disconnect", "TypeError")>>
            /\ UNCHANGED socks
       ELSE /\ ret' = <<Ret("disconnect", "ok")>>
            /\ socks' = [socks EXCEPT ![ws].rs = WsClose(@)]
    /\ last' = Ev("disconnect", 0, NoFrame)
    /\ disc' = NoCode
    /\ made' = {} /\ invoked' = <<>>
    /\ out' = <<>> /\ signals' = <<>>
    /\ UNCHANGED <<variant, grpVars, agentVars, heloW, authW, mjsVars>>
    /\ UNCHANGED stats

\* reconnect(); held: the groups held when the call was made (history: no
\* action reads it)
Mjs_reconnect ==
    /\ variant = "mjs"
    /\ FreeSocks # {}
    /\ LET c == Len(calls) + 1
           closed == IF IsOpen(ws) THEN [socks EXCEPT ![ws].rs = WsClose(@)] ELSE socks
       IN  /\ ws' = NewSock
           /\ socks' = [closed EXCEPT ![NewSock] = Mjs_newSocket(c)]
           /\ calls' = Append(calls, [kind |-> "reconnect", st |-> "pending",
                                      held |-> groups])
           /\ lsn' = lsn \cup {Listener("connected", "reconnect", c)}
    /\ last' = Ev("reconnect", 0, NoFrame)
    /\ disc' = NoCode
    /\ made' = {} /\ invoked' = <<>>
    /\ out' = <<>> /\ signals' = <<>> /\ ret' = <<>>
    /\ UNCHANGED <<variant, grpVars, state, node_id, conn_id, connected_at,
                   authenticated_at, heloW, authW, connected, tasks>>
    /\ UNCHANGED stats

\* the socket's open listener: builds the auth message and sends it on
\* this.socket
Mjs_onOpen(t) ==
    /\ variant = "mjs"
    /\ socks[t].rs = "CONNECTING"
    /\ socks' = [socks EXCEPT ![t].rs = "OPEN"]
    /\ out' = IF socks'[ws].rs = "OPEN" THEN <<Mjs_sendRaw(Mjs_authMsg)>> ELSE <<>>
    /\ last' = Ev("open", t, NoFrame)
    /\ disc' = NoCode
    /\ made' = {} /\ invoked' = <<>>
    /\ signals' = <<>> /\ ret' = <<>>
    /\ UNCHANGED <<variant, grpVars, agentVars, heloW, authW, mjsVars>>
    /\ UNCHANGED stats

\* the listeners of an event in registration order (a listener registered
\* with on() has call 0: the model registers it before any call)
Mjs_listeners(ev) ==
    LET ls == {l \in lsn : l.ev = ev}
    IN  CHOOSE q \in [1..Cardinality(ls) -> ls] :
            /\ \A i, j \in 1..Cardinality(ls) : i # j => q[i] # q[j]
            /\ \A i, j \in 1..Cardinality(ls) : i < j => q[i].call < q[j].call

\* _emit(eventName, payload): every listener, in registration order, is
\* deferred with setTimeout(fn, 0)
Mjs_emitTasks(ev, f) ==
    [i \in 1..Len(Mjs_listeners(ev)) |-> [l |-> Mjs_listeners(ev)[i], f |-> f]]

\* ... and a once-listener is removed
Mjs_emit(ev, f) ==
    /\ tasks' = tasks \o Mjs_emitTasks(ev, f)
    /\ lsn' = lsn \ {l \in lsn : l.ev = ev /\ l.kind # "on"}

\* a PanGroup._emit that schedules nothing while an invocation of a handler of
\* the group is still waiting
Mjs_group_emit_coalesced(f) ==
    IF /\ f.mtype \in handlers[f.group]
       /\ \A i \in DOMAIN tasks : tasks[i].l # Listener("handler", "group", f.group)
    THEN <<[l |-> Listener("handler", "group", f.group), f |-> f]>>
    ELSE <<>>

\* PanGroup._emit(msgType, msg): the handlers of the message type, deferred
Mjs_group_emit(f) ==
    IF f.mtype \in handlers[f.group]
    THEN <<[l |-> Listener("handler", "group", f.group), f |-> f]>>
    ELSE <<>>

\* the events the application listens to with on()
UserEvents == {"direct"}

\* on(eventName, fn)
Mjs_on(ev) ==
    /\ variant = "mjs"
    /\ Listener(ev, "on", 0) \notin lsn
    /\ lsn' = lsn \cup {Listener(ev, "on", 0)}
    /\ last' = Call("on", ev)
    /\ disc' = NoCode
    /\ made' = {} /\ invoked' = <<>>
    /\ out' = <<>> /\ signals' = <<>> /\ ret' = <<>>
    /\ UNCHANGED <<variant, grpVars, agentVars, socks, heloW, authW, connected,
                   calls, tasks>>
    /\ UNCHANGED stats

\* socket.send of _sendRaw: a socket still connecting throws, one closing or
\* closed drops the frame
Mjs_canSend == ws # 0 /\ socks[ws].rs # "CONNECTING"

\* sendDirect(nodeId, connId, msgType, payload)
Mjs_sendDirect ==
    /\ variant = "mjs"
    /\ IF ~Mjs_canSend
       THEN /\ ret' = <<Ret("send", "NotOpen")>>
            /\ out' = <<>>
       ELSE /\ ret' = <<Ret("send", "ok")>>
            /\ out' = IF IsOpen(ws)
                      THEN <<Mjs_sendRaw([type |-> "direct", sub |-> "app",
                                          node |-> node_id, conn |-> conn_id])>>
                      ELSE <<>>
    /\ last' = Call("send", [type |-> "direct", ttl |-> {}, spread |-> {}])
    /\ disc' = NoCode
    /\ made' = {} /\ invoked' = <<>>
    /\ signals' = <<>>
    /\ UNCHANGED <<variant, grpVars, agentVars, socks, heloW, authW, mjsVars>>
    /\ UNCHANGED stats

\* joinGroup(groupId, msgTypeHandlers); h: every handler is a function.  The
\* promise's executor arms the timer, registers the completer under the
\* request's fresh msg_id and sends; a throw of _sendRaw (no socket, or one
\* still connecting) rejects the promise and leaves the entry and the timer
\* behind ("zombie").  A socket that is closing or closed drops the frame.
\* the join_group message of joinGroup and of PanGroup._rejoin
Mjs_joinMsg(g, types) ==
    Mjs_sendRaw([type |-> "control", sub |-> "join_group",
                 node |-> node_id, conn |-> conn_id]) @@ Payload(g, types)

\* hs: the keys of msgTypeHandlers
Mjs_joinGroup(g, hs, h) ==
    /\ variant = "mjs"
    /\ MjsFreeReqs # {}
    /\ pendingJoins' = MapSet(pendingJoins, MjsNewReq, MjsNewReq)
    /\ IF ~Mjs_canSend
       THEN /\ slots' = [slots EXCEPT ![MjsNewReq] =
                            [kind |-> "join", group |-> g, st |-> "zombie",
                             h |-> TRUE, hs |-> {}]]
            /\ ret' = <<ReqRet("joinGroup", "NotOpen", MjsNewReq)>>
            /\ out' = <<>>
       ELSE /\ slots' = [slots EXCEPT ![MjsNewReq] =
                            [Pending("join", g, h) EXCEPT !.hs = hs]]
            /\ ret' = <<>>
            /\ out' = IF IsOpen(ws) THEN <<Mjs_joinMsg(g, hs)>> ELSE <<>>
    /\ last' = Call("joinGroup", [group |-> g, hs |-> hs, h |-> h])
    /\ disc' = NoCode
    /\ made' = {} /\ invoked' = <<>>
    /\ signals' = <<>>
    /\ UNCHANGED <<variant, agentVars, socks, heloW, authW, mjsVars,
                   pendingLeaves, groups, handlers>>
    /\ UNCHANGED stats

\* the 3000 ms timer of joinGroup: deletes the entry and rejects
Mjs_joinTimer(r) ==
    /\ variant = "mjs"
    /\ slots[r].st \in {"pending", "zombie"}
    /\ slots' = [slots EXCEPT ![r] = FreeSlot]
    /\ pendingJoins' = MapDelete(pendingJoins, r)
    /\ ret' = IF slots[r].st = "pending"
              THEN <<ReqRet("joinGroup", "RequestTimeout", r)>> ELSE <<>>
    /\ last' = Ev("requestTimer", r, NoFrame)
    /\ disc' = NoCode
    /\ made' = {} /\ invoked' = <<>>
    /\ out' = <<>> /\ signals' = <<>>
    /\ UNCHANGED <<variant, agentVars, socks, heloW, authW, mjsVars,
                   pendingLeaves, groups, handlers>>
    /\ UNCHANGED stats

\* the completer of the pending entry the reply's in_response_to names, if
\* any: it clears the timer and deletes the entry, then, on status ok,
\* builds the PanGroup (throwing on a handler that is no function, before
\* the promise is resolved: the agent keeps nothing of the request, and its
\* promise stays unsettled for ever), or else rejects
Mjs_completer(f) ==
    LET p == MapGet(pendingJoins, f.req)
        r == f.req
    IN  IF p = {}
        THEN ret' = <<>> /\ made' = {} /\ UNCHANGED grpVars
        ELSE /\ pendingJoins' = MapDelete(pendingJoins, r)
             /\ UNCHANGED pendingLeaves
             /\ IF f.status # "ok"
                THEN /\ slots' = [slots EXCEPT ![r] = FreeSlot]
                     /\ ret' = <<ReqRet("joinGroup", "JoinFailed", r)>>
                     /\ made' = {}
                     /\ UNCHANGED <<groups, handlers>>
                ELSE IF slots[r].h
                THEN /\ slots' = [slots EXCEPT ![r] = FreeSlot]
                     /\ made' = {slots[r].group}
                     /\ handlers' = [handlers EXCEPT ![slots[r].group] = slots[r].hs]
                     /\ groups' = groups \cup {slots[r].group}
                     /\ ret' = <<ReqRet("joinGroup", "ok", r)>>
                ELSE /\ slots' = [slots EXCEPT ![r] = FreeSlot]
                     /\ ret' = <<ReqRet("joinGroup", "unsettled", r)>>
                     /\ made' = {slots[r].group}
                     /\ UNCHANGED <<groups, handlers>>

\* _dispatchIncomingMessage of a broadcast frame: the handlers of the group
\* held for the frame's group, then the listeners of 'broadcast'
Mjs_dispatchBroadcast(f) ==
    (IF f.group \in groups THEN Mjs_group_emit(f) ELSE <<>>)
        \o Mjs_emitTasks("broadcast", f)

\* the socket's message listener: _dispatchIncomingMessage.  (No history of
\* the frames received is kept in seen: this class sends auth only from the
\* open listener, before any frame can have arrived on the socket.)
Mjs_onMessage(t, f) ==
    /\ variant = "mjs"
    /\ Delivers(t)
    /\ UNCHANGED socks
    /\ CASE f.sub = "auth.ok" ->
               /\ Mjs_emit("connected", f)
               /\ signals' = <<"msg", "connected", "control">>
               /\ ret' = <<>> /\ made' = {}
               /\ UNCHANGED grpVars
         [] f.sub = "auth.failed" ->
               /\ Mjs_emit("auth_failed", f)
               /\ signals' = <<"msg", "auth_failed", "control">>
               /\ ret' = <<>> /\ made' = {}
               /\ UNCHANGED grpVars
         [] f.sub = "join_group_reply" ->
               /\ slots[f.req].st # "zombie"
               /\ Mjs_completer(f)
               /\ signals' = <<"msg">>
               /\ UNCHANGED <<tasks, lsn>>
         [] f.type = "direct" ->
               /\ Len(tasks) + Len(Mjs_emitTasks("direct", f)) <= MaxTasks
               /\ Mjs_emit("direct", f)
               /\ signals' = <<"msg", "direct">>
               /\ ret' = <<>> /\ made' = {}
               /\ UNCHANGED grpVars
         [] f.type = "broadcast" ->
               /\ Len(tasks) + Len(Mjs_dispatchBroadcast(f)) <= MaxTasks
               /\ tasks' = tasks \o Mjs_dispatchBroadcast(f)
               /\ signals' = <<"msg", "broadcast">>
               /\ ret' = <<>> /\ made' = {}
               /\ UNCHANGED <<lsn, grpVars>>
         [] OTHER ->
               /\ signals' = <<"msg", "control">>
               /\ ret' = <<>> /\ made' = {}
               /\ UNCHANGED <<tasks, lsn, grpVars>>
    /\ last' = Ev("message", t, f)
    /\ disc' = NoCode
    /\ invoked' = <<>>
    /\ out' = <<>>
    /\ UNCHANGED <<variant, agentVars, heloW, authW, connected, calls>>
    /\ UNCHANGED stats

\* the groups held, in the order of this.groups.values() (the model takes
\* ascending identifiers for the Map's insertion order)
Mjs_heldGroups ==
    CHOOSE q \in [1..Cardinality(groups) -> groups] :
        \A i, j \in 1..Cardinality(groups) : i < j => q[i] < q[j]

\* _rejoin that does not look at this.agent.connected
Mjs_rejoins_always == TRUE

\* PanGroup._rejoin: if (!this.agent.connected) return
Mjs_rejoins == connected

\* the loop of reconnect()'s 'connected' listener: the join_group messages
\* of the groups held, when _rejoin sends at all
Mjs_rejoinAll ==
    IF Mjs_rejoins
    THEN [i \in 1..Cardinality(groups) |->
              Mjs_joinMsg(Mjs_heldGroups[i], handlers[Mjs_heldGroups[i]])]
    ELSE <<>>

\* a deferred listener runs: the 'connected' listener of connect() (lines
\* 52-58), that of reconnect() (108-113: a _rejoin whose _sendRaw throws
\* leaves the promise pending), reject for 'auth_failed' (59), a group's
\* handler, or a listener registered with on()
Mjs_runTask ==
    /\ variant = "mjs"
    /\ tasks # <<>>
    /\ LET l == Head(tasks).l
           f == Head(tasks).f
       IN  /\ CASE l.ev = "connected" /\ l.kind = "connect" ->
                      /\ connected' = TRUE
                      /\ conn_id' = f.conn
                      /\ node_id' = f.node
                      /\ calls' = Settle(l.call, "resolved")
                      /\ ret' = Settled(l.call, "connect", "ok")
                      /\ out' = <<>> /\ invoked' = <<>>
                [] l.ev = "connected" /\ l.kind = "reconnect" ->
                      /\ IF Mjs_rejoinAll # <<>> /\ ~Mjs_canSend
                         THEN /\ out' = <<>> /\ ret' = <<>>
                              /\ UNCHANGED calls
                         ELSE /\ out' = IF IsOpen(ws) THEN Mjs_rejoinAll ELSE <<>>
                              /\ calls' = Settle(l.call, "resolved")
                              /\ ret' = Settled(l.call, "reconnect", "ok")
                      /\ invoked' = <<>>
                      /\ UNCHANGED <<connected, conn_id, node_id>>
                [] l.ev = "auth_failed" ->
                      /\ calls' = Settle(l.call, "rejected")
                      /\ ret' = Settled(l.call, l.kind, "AuthenticationFailed")
                      /\ out' = <<>> /\ invoked' = <<>>
                      /\ UNCHANGED <<connected, conn_id, node_id>>
                [] OTHER ->
                      /\ invoked' = <<[l |-> l, f |-> f]>>
                      /\ out' = <<>> /\ ret' = <<>>
                      /\ UNCHANGED <<connected, conn_id, node_id, calls>>
           /\ last' = Ev("task", l.call, f)
           /\ disc' = NoCode
           /\ made' = {}
    /\ tasks' = Tail(tasks)
    /\ signals' = <<>>
    /\ UNCHANGED <<variant, grpVars, state, ws, socks, connected_at, authenticated_at,
                   heloW, authW, lsn>>
    /\ UNCHANGED stats

\* the socket's error listener is the promise's reject
Mjs_onError(t) ==
    /\ variant = "mjs"
    /\ CanFail(t)
    /\ socks' = [socks EXCEPT ![t].rs = "FAILED"]
    /\ calls' = Settle(socks[t].by, "rejected")
    /\ ret' = Settled(socks[t].by, calls[socks[t].by].kind, "TransportError")
    /\ last' = Ev("error", t, NoFrame)
    /\ disc' = NoCode
    /\ made' = {} /\ invoked' = <<>>
    /\ out' = <<>> /\ signals' = <<>>
    /\ UNCHANGED <<variant, grpVars, agentVars, heloW, authW, connected, lsn, tasks>>
    /\ UNCHANGED stats

Mjs_onClose(t) ==
    /\ variant = "mjs"
    /\ CanClose(t)
    /\ socks' = [socks EXCEPT ![t] = ClosedSock]
    /\ connected' = FALSE
    /\ signals' = <<"disconnected">>
    /\ last' = Ev("close", t, NoFrame)
    /\ disc' = IF "disconnected" \in Range(signals') THEN WsCloseCode ELSE NoCode
    /\ made' = {} /\ invoked' = <<>>
    /\ out' = <<>> /\ ret' = <<>>
    /\ UNCHANGED <<variant, grpVars, agentVars, heloW, authW, calls, lsn, tasks>>
    /\ UNCHANGED stats

\* connect() and what follows it on its socket
MjsConnNext ==
    \/ Mjs_connect
    \/ Mjs_runTask
    \/ \E t \in SockIds :
          \/ Mjs_onOpen(t)
          \/ Mjs_onError(t)
          \/ Mjs_onClose(t)
          \/ \E f \in InFrames : Mjs_onMessage(t, f)

MjsNext ==
    \/ MjsConnNext
    \/ Mjs_disconnect
    \/ Mjs_reconnect

\* joinGroup with no handlers or with one that is no function, its timer
\* and its replies
MjsGrpNext ==
    \/ \E g \in Groups, h \in BOOLEAN :
          Mjs_joinGroup(g, IF h THEN {} ELSE {MaxTypes}, h)
    \/ \E r \in MjsReqIds : Mjs_joinTimer(r)
    \/ \E t \in SockIds, f \in MjsReplyFrames : Mjs_onMessage(t, f)

\* joinGroup with handlers, its timer and replies, and inbound broadcast
\* frames
MjsHandlerNext ==
    \/ \E g \in Groups, hs \in MjsHandlerSets : Mjs_joinGroup(g, hs, TRUE)
    \/ \E r \in MjsReqIds : Mjs_joinTimer(r)
    \/ \E t \in SockIds, f \in MjsReplyFrames \cup BroadcastFrames : Mjs_onMessage(t, f)

\* joinGroup with a handler for every message type, its timer and replies,
\* and inbound broadcast frames
MjsOrderNext ==
    \/ \E g \in Groups : Mjs_joinGroup(g, MsgTypes, TRUE)
    \/ \E r \in MjsReqIds : Mjs_joinTimer(r)
    \/ \E t \in SockIds, f \in MjsReplyFrames \cup BroadcastFrames : Mjs_onMessage(t, f)

\* on(), sendDirect and inbound direct frames
MjsDirectNext ==
    \/ \E ev \in UserEvents : Mjs_on(ev)
    \/ Mjs_sendDirect
    \/ \E t \in SockIds, f \in DirectFrames : Mjs_onMessage(t, f)

\* ============================================================ handlers throw
\* the event of a step in which a handler threw (arg 1; 0: it returned)
Threw(e) == [e EXCEPT !.arg = 1]

\* the message listener of _bindSocket on a broadcast frame whose handler
\* throws: GroupHandle._dispatch calls the handler inside _dispatch, the
\* exception leaves _dispatch before this.emit("group", msg) and is caught
\* and logged by the listener's catch
Js1_onMessageThrows(t, f) ==
    /\ variant = "js1"
    /\ socks[t].bound /\ Delivers(t)
    /\ f.group \in groups /\ Js1_group_dispatch(f) # <<>>
    /\ invoked' = Js1_group_dispatch(f)
    /\ signals' = <<>>
    /\ last' = Threw(Ev("message", t, f))
    /\ disc' = NoCode
    /\ made' = {}
    /\ out' = <<>> /\ ret' = <<>>
    /\ UNCHANGED <<variant, grpVars, agentVars, socks, heloW, authW, mjsVars>>
    /\ Js_received(f)

ThrowNext ==
    \E t \in SockIds, f \in BroadcastFrames : Js1_onMessageThrows(t, f)

\* ========================================================= undecodable frames
\* data the message listener cannot decode (JSON.parse / decodePacket throws)
BadFrame == [type |-> "undecodable", sub |-> "none", node |-> NULL_ID, conn |-> NULL_ID]

\* the step of a message listener that changes nothing
DroppedFrame(t) ==
    /\ last' = Ev("message", t, BadFrame)
    /\ disc' = NoCode
    /\ made' = {} /\ invoked' = <<>>
    /\ out' = <<>> /\ signals' = <<>> /\ ret' = <<>>
    /\ UNCHANGED <<variant, grpVars, agentVars, socks, heloW, authW, mjsVars>>
    /\ UNCHANGED stats

\* the message listener of _bindSocket: the try block's catch logs "Bad JSON"
Js1_onBadFrame(t) ==
    /\ variant = "js1"
    /\ socks[t].bound /\ Delivers(t)
    /\ DroppedFrame(t)

\* the message listener of setup_websocket: the same try / catch
Js2_onBadFrame(t) ==
    /\ variant = "js2"
    /\ socks[t].bound /\ Delivers(t)
    /\ DroppedFrame(t)

\* the message listener of connect() / reconnect(): JSON.parse throws out of
\* the listener.  Where the host reports the exception and goes on (a
\* browser's WebSocket) the frame is dropped; where an exception that leaves
\* a listener is fatal (the ws package under Node, no uncaughtException
\* handler) the process ends: no agent is left (variant "exited") and its
\* sockets are closed
Mjs_onBadFrame(t, fatal) ==
    /\ variant = "mjs"
    /\ Delivers(t)
    /\ IF fatal
       THEN /\ variant' = "exited"
            /\ socks' = [u \in SockIds |->
                            IF socks[u].rs = "NONE" THEN socks[u] ELSE ClosedSock]
            /\ last' = Ev("message", t, BadFrame)
            /\ disc' = NoCode
            /\ made' = {} /\ invoked' = <<>>
            /\ out' = <<>> /\ signals' = <<>> /\ ret' = <<>>
            /\ UNCHANGED <<grpVars, agentVars, heloW, authW, mjsVars, stats>>
       ELSE DroppedFrame(t)

BadFrameNext ==
    \E t \in SockIds :
        \/ Js1_onBadFrame(t)
        \/ Js2_onBadFrame(t)
        \/ \E fatal \in BOOLEAN : Mjs_onBadFrame(t, fatal)

\* ============================================================= null frames
\* a frame whose text is the JSON value null: JSON.parse returns null
NullFrame == [type |-> "null", sub |-> "none", node |-> NULL_ID, conn |-> NULL_ID]

\* the message listener of _bindSocket on such a frame: msgs_in_total++
\* (line 318) runs, then msg.type (line 319) throws a TypeError, which the
\* listener's catch logs: msgs_in_by_type is not reached, nothing is
\* dispatched
Js1_onNullFrame(t) ==
    /\ variant = "js1"
    /\ socks[t].bound /\ Delivers(t)
    /\ stats' = IF stats.kept THEN [stats EXCEPT !.msgs_in_total = @ + 1] ELSE stats
    /\ Within(stats')
    /\ last' = Ev("message", t, NullFrame)
    /\ disc' = NoCode
    /\ made' = {} /\ invoked' = <<>>
    /\ out' = <<>> /\ signals' = <<>> /\ ret' = <<>>
    /\ UNCHANGED <<variant, grpVars, agentVars, socks, heloW, authW, mjsVars>>

NullFrameNext == \E t \in SockIds : Js1_onNullFrame(t)

\* ============================================================== identifiers
\* src/pan-agent.js lines 24-28 and 456-464

\* strings: the empty string, names, and strings of the shape of a UUID
EmptyStr == [u |-> FALSE, v |-> 0]
NameStrs == {[u |-> FALSE, v |-> n] : n \in 1..MaxNames}
UuidStrs == {[u |-> TRUE, v |-> k] : k \in 0..(MaxUuids - 1)}
Strs == {EmptyStr} \cup NameStrs \cup UuidStrs
\* no identifier: the call threw
NoId == [u |-> FALSE, v |-> -1]

\* validate of the uuid package
isUuid(str) == str.u

\* v5 of the uuid package: a TypeError on a namespace that is no UUID, else
\* the hash of namespace and string, a UUID that depends on both and differs
\* from a UUID hashed (SHA-1 returns its input for none)
uuidv5(str, namespace) ==
    IF ~isUuid(namespace)
    THEN NoId
    ELSE [u |-> TRUE,
          v |-> IF isUuid(str)
                THEN (str.v + 1 + (namespace.v % (MaxUuids - 1))) % MaxUuids
                ELSE (str.v + 2 * namespace.v) % MaxUuids]

\* how a derivation ended
ResOf(id) == IF id = NoId THEN "TypeError" ELSE "ok"

\* toUuid(str, namespace)
toUuid(str, namespace) ==
    IF str = EmptyStr THEN NoId
    ELSE IF isUuid(str) THEN str
    ELSE uuidv5(str, namespace)

\* get_uuid_for(str, namespace): a module function, its this is undefined
get_uuid_for(str, namespace) ==
    IF isUuid(namespace) THEN uuidv5(str, namespace)
    ELSE IF ~isUuid(str) THEN NoId
    ELSE str

\* the group id of join_group(group_name) of the dispatcher based class
Js2_group_id(group_name, namespace) ==
    IF ~isUuid(group_name) THEN get_uuid_for(group_name, namespace) ELSE group_name

DeriveRet(id) == [op |-> "derive", res |-> ResOf(id), id |-> id]

\* a call of the derivation fn with a string and a namespace
Derive(fn, str, namespace, id) ==
    /\ ret' = <<DeriveRet(id)>>
    /\ last' = Call("derive", [fn |-> fn, str |-> str, ns |-> namespace])
    /\ disc' = NoCode
    /\ made' = {} /\ invoked' = <<>>
    /\ out' = <<>> /\ signals' = <<>>
    /\ UNCHANGED <<variant, grpVars, agentVars, socks, heloW, authW, mjsVars>>
    /\ UNCHANGED stats

Js1_toUuid(str, namespace) ==
    /\ variant = "js1"
    /\ Derive("toUuid", str, namespace, toUuid(str, namespace))

Js2_get_uuid_for(str, namespace) ==
    /\ variant = "js2"
    /\ Derive("get_uuid_for", str, namespace, get_uuid_for(str, namespace))

Js2_join_group_id(str, namespace) ==
    /\ variant = "js2"
    /\ Derive("join_group", str, namespace, Js2_group_id(str, namespace))

\* namespaces: UUIDs, and one string that is none
DeriveNext ==
    \E str \in Strs, namespace \in UuidStrs \cup {[u |-> FALSE, v |-> 1]} :
        \/ Js1_toUuid(str, namespace)
        \/ Js2_get_uuid_for(str, namespace)
        \/ Js2_join_group_id(str, namespace)

Next == Js1Next \/ Js2Next \/ MjsNext

\* an agent of any of the three classes
Spec == Init /\ [][Next]_vars

\* an agent of one class, or of one of the two classes of pan-agent.js
InitJs1 == Init /\ variant = "js1"
InitJs2 == Init /\ variant = "js2"
InitMjs == Init /\ variant = "mjs"
InitJs == Init /\ variant \in {"js1", "js2"}
SpecJs1 == InitJs1 /\ [][Js1Next]_vars
SpecJs2 == InitJs2 /\ [][Js2Next]_vars
SpecMjs == InitMjs /\ [][MjsNext]_vars
SpecJs == InitJs /\ [][Js1Next \/ Js2Next]_vars

\* the class of pan-agent.mjs with its join requests
SpecMjsGrp == InitMjs /\ [][MjsNext \/ MjsGrpNext]_vars

\* the class of pan-agent.mjs with its listeners, direct frames and sends
SpecMjsDirect == InitMjs /\ [][MjsNext \/ MjsDirectNext]_vars

\* the EventEmitter based class with its join and leave requests
SpecJs1Grp == InitJs1 /\ [][Js1Next \/ Js1GrpNext]_vars

\* ... and with its handlers and the frames dispatched to them
SpecJs1Dispatch == InitJs1 /\ [][Js1Next \/ Js1HandlerNext]_vars

\* the two classes of pan-agent.js with their application sends
SpecJsSend == InitJs /\ [][Js1Next \/ Js2Next \/ Js1SendNext \/ Js2SendNext]_vars

\* the dispatcher based class with its groups
SpecJs2Grp == InitJs2 /\ [][Js2Next \/ Js2GrpNext]_vars

\* the two classes of pan-agent.js with their groups and handlers
SpecJsDispatch ==
    InitJs /\ [][Js1Next \/ Js1HandlerNext \/ Js2Next \/ Js2GrpNext]_vars

\* an agent of the EventEmitter based class or of pan-agent.mjs
InitJs1Mjs == Init /\ variant \in {"js1", "mjs"}

\* ... with its join and leave requests
SpecGrp == InitJs1Mjs /\ [][Js1Next \/ Js1GrpNext \/ MjsNext \/ MjsGrpNext]_vars

\* ... with its handlers and the frames dispatched to them (pan-agent.mjs:
\* on the sockets of connect())
SpecDispatch ==
    InitJs1Mjs /\ [][Js1Next \/ Js1HandlerNext \/ MjsConnNext \/ MjsHandlerNext]_vars

\* ================================================================== claims

Js == variant \in {"js1", "js2"}

AllowedTransition(a, b) ==
    \/ a = b
    \/ a = "DISCONNECTED" /\ b = "CONNECTING"
    \/ a = "CONNECTING" /\ b = "CONNECTED_UNTRUSTED"
    \/ a = "CONNECTED_UNTRUSTED" /\ b = "AUTHENTICATING"
    \/ a = "AUTHENTICATING" /\ b \in {"AUTHENTICATED", "CONNECTED_UNTRUSTED"}
    \/ b = "DISCONNECTED"

\* C1: every change of this.state is one of DISCONNECTED->CONNECTING,
\* CONNECTING->CONNECTED_UNTRUSTED, CONNECTED_UNTRUSTED->AUTHENTICATING,
\* AUTHENTICATING->AUTHENTICATED, AUTHENTICATING->CONNECTED_UNTRUSTED or
\* any state->DISCONNECTED.
C1_OnlySpecifiedTransitions == [][AllowedTransition(state, state')]_vars

Valid(id) == id # NULL_ID

\* C2: in every reachable state the identity (node_id, conn_id) is valid,
\* i.e. not the null identifier, if and only if state = AUTHENTICATED.
C2_IdentityValidIffAuthenticated ==
    Js => ((Valid(node_id) /\ Valid(conn_id)) <=> state = "AUTHENTICATED")

\* C5: on every transport, no auth control frame is handed to the transport
\* before a helo reply has been received on that same transport.
C5_NoAuthBeforeHelo ==
    \A i \in DOMAIN out :
        out[i].sub = "auth" => "helo" \in socks[out[i].sock].seen

\* C3: connect() called in a state other than DISCONNECTED fails with
\* InvalidState, opens no transport, sends no frame and leaves the state
\* unchanged; called in DISCONNECTED it moves to CONNECTING on a new transport.
C3_ConnectOnlyFromDisconnected ==
    [][ (Js /\ last'.ev = "connect") =>
            IF state # "DISCONNECTED"
            THEN /\ ret' = <<Ret("connect", "InvalidState")>>
                 /\ out' = <<>>
                 /\ UNCHANGED <<state, ws, socks>>
            ELSE /\ state' = "CONNECTING"
                 /\ ws' \in FreeSocks
                 /\ ret' = <<>> ]_vars

\* a second connect() with no close() in between was refused
C3_Witness ==
    /\ Js
    /\ last.ev = "connect"
    /\ ret = <<Ret("connect", "InvalidState")>>
    /\ state = "CONNECTING"
    /\ ws # 0

\* C4: authenticate() called in a state other than CONNECTED_UNTRUSTED fails,
\* sends no auth frame and leaves the state unchanged.
C4_AuthenticateOnlyFromUntrusted ==
    [][ (Js /\ last'.ev = "authenticate" /\ state # "CONNECTED_UNTRUSTED") =>
            /\ ret' = <<Ret("authenticate", "InvalidState")>>
            /\ out' = <<>>
            /\ UNCHANGED <<state, authW, node_id, conn_id>> ]_vars

\* authenticate() was refused on an agent that is already authenticated
C4_Witness ==
    /\ Js
    /\ last.ev = "authenticate"
    /\ ret = <<Ret("authenticate", "InvalidState")>>
    /\ state = "AUTHENTICATED"

\* C6: when the transport opens during connect() exactly one helo frame is
\* sent; a helo reply received while CONNECTING (in js1: with connect()
\* still waiting for it) moves the state to CONNECTED_UNTRUSTED, records
\* connected_at and is surfaced as the helo signal; and the state never goes
\* from CONNECTING to CONNECTED_UNTRUSTED unless a helo reply was received.
C6_HeloHandshake ==
    [][ /\ (Js /\ last'.ev = "open" /\ socks[last'.sock].ow) =>
               /\ Len(out') = 1
               /\ out'[1].sub = "helo" /\ out'[1].sock = last'.sock
        /\ (/\ Js /\ state = "CONNECTING"
            /\ last'.ev = "message" /\ last'.frame.sub = "helo"
            /\ variant = "js1" => heloW > 0) =>
               /\ state' = "CONNECTED_UNTRUSTED"
               /\ connected_at'
               /\ "helo" \in Range(signals')
        /\ (Js /\ state = "CONNECTING" /\ state' = "CONNECTED_UNTRUSTED") =>
               \E t \in SockIds : "helo" \in socks'[t].seen ]_vars

\* an authentication exchange succeeded in this step: in js1 a pending
\* authenticate() was answered by auth.ok, in mjs a 'connected' listener of
\* connect() or reconnect() ran
AuthSucceeded ==
    \/ variant = "js1" /\ last.ev = "message" /\ Ret("authenticate", "ok") \in Range(ret)
    \/ variant = "mjs" /\ last.ev = "task" /\ last.frame.sub = "auth.ok"

\* C7: whenever an authentication exchange succeeds, in authenticate() or in
\* the re-authentication of reconnect(), node_id and conn_id are the values
\* the success reply carries and the agent is authenticated (js1: state
\* AUTHENTICATED, authenticated_at recorded, authenticated emitted; mjs:
\* connected).
C7_AuthSuccessSetsIdentity ==
    AuthSucceeded =>
        /\ node_id = last.frame.node
        /\ conn_id = last.frame.conn
        /\ variant = "js1" =>
              /\ state = "AUTHENTICATED"
              /\ authenticated_at
              /\ "authenticated" \in Range(signals)
        /\ variant = "mjs" => connected

\* C8: when a failure reply answers an authentication attempt, the pending
\* call rejects, auth_failed is emitted, nothing of the agent's identity is
\* set, the state returns to CONNECTED_UNTRUSTED, that call never succeeds
\* afterwards, and a new authenticate() is accepted and reaches AUTHENTICATED
\* when a success reply answers it.  (js1: authenticate(); mjs: connect().)
C8_AuthFailureThenRetry ==
    [][ /\ (/\ variant = "js1" /\ authW > 0
            /\ last'.ev = "message" /\ last'.frame.sub = "auth.failed") =>
               /\ ret' = Repeat(authW, Ret("authenticate", "AuthenticationFailed"))
               /\ "auth_failed" \in Range(signals')
               /\ state' = "CONNECTED_UNTRUSTED"
               /\ authW' = 0
               /\ UNCHANGED <<node_id, conn_id, authenticated_at>>
        /\ (/\ variant = "js1" /\ last'.ev = "authenticate"
            /\ state = "CONNECTED_UNTRUSTED" /\ IsOpen(ws)) =>
               /\ state' = "AUTHENTICATING"
               /\ authW' = authW + 1
               /\ Len(out') = 1 /\ out'[1].sub = "auth" /\ out'[1].sock = ws
        /\ (/\ variant = "js1" /\ authW > 0
            /\ last'.ev = "message" /\ last'.frame.sub = "auth.ok") =>
               /\ state' = "AUTHENTICATED"
               /\ ret' = Repeat(authW, Ret("authenticate", "ok"))
        /\ (variant = "js1" /\ state # "AUTHENTICATED" /\ state' = "AUTHENTICATED") =>
               authW > 0 /\ last'.frame.sub = "auth.ok"
        /\ (/\ variant = "mjs"
            /\ last'.ev = "message" /\ last'.frame.sub = "auth.failed") =>
               /\ "auth_failed" \in Range(signals')
               /\ \A l \in lsn : l.ev = "auth_failed" =>
                      /\ l \notin lsn'
                      /\ \E i \in DOMAIN tasks' : tasks'[i].l = l
               /\ UNCHANGED <<connected, node_id, conn_id, calls>>
        /\ (/\ variant = "mjs" /\ last'.ev = "task" /\ tasks # <<>>
            /\ Head(tasks).l.ev = "auth_failed"
            /\ calls[Head(tasks).l.call].st = "pending") =>
               /\ calls'[Head(tasks).l.call].st = "rejected"
               /\ ret' = <<Ret("connect", "AuthenticationFailed")>>
               /\ UNCHANGED <<connected, node_id, conn_id>>
        /\ \A c \in DOMAIN calls :
               calls[c].st = "rejected" => calls'[c].st = "rejected" ]_vars

\* authenticate() was just rejected by a failure reply
C8_Witness ==
    /\ variant = "js1"
    /\ last.ev = "message" /\ last.frame.sub = "auth.failed"
    /\ ret = <<Ret("authenticate", "AuthenticationFailed")>>
    /\ state = "CONNECTED_UNTRUSTED"
    /\ IsOpen(ws)

\* C9: if the transport opens and no helo reply arrives, connect() fails with
\* HandshakeTimeout: connect() never completes successfully unless a helo
\* reply was received, and HandshakeTimeout is reported by the timer of the
\* wait for that reply.
C9_HandshakeTimeout ==
    /\ (Js /\ Ret("connect", "ok") \in Range(ret)) =>
           \E t \in SockIds : "helo" \in socks[t].seen
    /\ (Js /\ Ret("connect", "HandshakeTimeout") \in Range(ret)) =>
           last.ev = "waitTimer"

\* C10: a connect() that times out leaves the state DISCONNECTED, and an
\* authenticate() that times out leaves it CONNECTED_UNTRUSTED.
C10_TimeoutRestoresState ==
    /\ (Js /\ \E r \in {"ConnectTimeout", "HandshakeTimeout"} :
                  Ret("connect", r) \in Range(ret)) => state = "DISCONNECTED"
    /\ (Js /\ Ret("authenticate", "RequestTimeout") \in Range(ret)) =>
           state = "CONNECTED_UNTRUSTED"

\* C11: close(code, reason) may be called from any state (also right after a
\* close()): when it returns the state is DISCONNECTED, the agent holds no
\* transport, the transport it held has been asked to close (an open one is
\* closing, one still connecting is aborting), and a disconnected signal
\* carrying the given code has been emitted.
C11_CloseIdempotent ==
    [][ (Js /\ last'.ev = "close()") =>
            /\ state' = "DISCONNECTED"
            /\ ws' = 0
            /\ ws # 0 =>
                  /\ socks[ws].rs = "OPEN" => socks'[ws].rs = "CLOSING"
                  /\ socks[ws].rs = "CONNECTING" => socks'[ws].rs = "ABORTING"
                  /\ socks'[ws].rs \notin {"OPEN", "CONNECTING"}
            /\ \A t \in SockIds \ {ws} : socks'[t] = socks[t]
            /\ signals' = <<"disconnected">>
            /\ disc' = last'.arg
            /\ made' = {} /\ invoked' = <<>>
            /\ ret' = <<Ret("close", "ok")>>
            /\ out' = <<>> ]_vars

\* close() with a code of the caller's was called on an authenticated agent
\* whose transport was open
C11_Witness ==
    /\ Js
    /\ last.ev = "close()" /\ last.arg # DefaultCloseCode
    /\ disc = last.arg
    /\ state = "DISCONNECTED" /\ ws = 0
    /\ authenticated_at
    /\ \E t \in SockIds : socks[t].rs = "CLOSING"

\* C12: when the agent's transport closes while the state is not
\* DISCONNECTED, the state becomes DISCONNECTED (mjs: connected becomes
\* false) and disconnected is emitted; the agent creates no transport and
\* sends no frame in reaction.
C12_TransportCloseDisconnects ==
    [][ /\ (Js /\ last'.ev = "close" /\ last'.sock = ws /\ state # "DISCONNECTED") =>
               /\ state' = "DISCONNECTED"
               /\ "disconnected" \in Range(signals')
        /\ (variant = "mjs" /\ last'.ev = "close") =>
               /\ ~connected'
               /\ "disconnected" \in Range(signals')
        /\ last'.ev = "close" =>
               /\ out' = <<>>
               /\ ws' = ws
               /\ \A t \in SockIds : socks[t].rs = "NONE" => socks'[t].rs = "NONE" ]_vars

\* C13: when the agent's transport reports an error while the state is not
\* DISCONNECTED, the state becomes DISCONNECTED and the error signal is
\* emitted.
C13_TransportErrorDisconnects ==
    [][ (Js /\ last'.ev = "error" /\ last'.sock = ws /\ state # "DISCONNECTED") =>
            /\ state' = "DISCONNECTED"
            /\ "error" \in Range(signals') ]_vars

\* C14: every control envelope handed to a transport (helo, auth, join_group,
\* leave_group), in every connection state, has ttl = 1.
C14_ControlTtlIsOne ==
    \A i \in DOMAIN out : out[i].type = "control" => out[i].ttl = 1

\* the ttl a caller asked for: the one given, or default_ttl when omitted
RequestedTtl(ttl) == IF ttl = {} THEN default_ttl ELSE CHOOSE n \in ttl : TRUE
ClampTtl(t) == IF t > max_ttl THEN max_ttl ELSE IF t < 0 THEN 0 ELSE t

\* C15: every application envelope (direct or broadcast) sent while
\* AUTHENTICATED has ttl = max(0, min(max_ttl, t)), t being the ttl the caller
\* gave or default_ttl when omitted.
C15_AppTtlClamped ==
    \A i \in DOMAIN out :
        (Js /\ out[i].type \in {"direct", "broadcast"} /\ state = "AUTHENTICATED") =>
            out[i].ttl = ClampTtl(RequestedTtl(last.arg.ttl))

\* C16: a send of an application envelope while the state is not
\* AUTHENTICATED fails (NotAuthenticated, or the transport's not-open error
\* of an agent that holds no open transport) and hands no frame to the
\* transport; no direct or broadcast envelope leaves an agent that is not
\* AUTHENTICATED.
C16_NoAppSendUnlessAuthenticated ==
    /\ (Js /\ last.ev = "send" /\ state # "AUTHENTICATED") =>
           /\ ret \in {<<Ret("send", "NotAuthenticated")>>, <<Ret("send", "NotOpen")>>}
           /\ out = <<>>
    /\ \A i \in DOMAIN out :
           (Js /\ out[i].type \in {"direct", "broadcast"}) => state = "AUTHENTICATED"

\* C17: every broadcast envelope handed to the transport has the spread the
\* caller gave, or, when none was given, its own resolved ttl.
C17_SpreadDefaultsToTtl ==
    \A i \in DOMAIN out :
        (variant = "js2" /\ out[i].type = "broadcast") =>
            out[i].spread = IF last.arg.spread # {} THEN last.arg.spread
                            ELSE {out[i].ttl}

\* C18: every outbound envelope carries a msg_id, and its from is the
\* agent's identity when the state is AUTHENTICATED and the null identity
\* otherwise.
C18_StampedWithIdentity ==
    \A i \in DOMAIN out :
        Js => /\ out[i].mid
              /\ out[i].node = IF state = "AUTHENTICATED" THEN node_id ELSE NULL_ID
              /\ out[i].conn = IF state = "AUTHENTICATED" THEN conn_id ELSE NULL_ID

\* a request's promise was settled, or lost unsettled, in the latest step
Terminal(x) == "req" \in DOMAIN x

\* C19: for every join or leave request exactly one terminal action occurs:
\* whenever a request's table entry and timer are destroyed (by a reply or by
\* the timeout) its promise is settled in that step, once, and only a
\* request that was still pending is settled; a reply for which the table
\* holds no entry completes nothing.
C19_ExactlyOneTerminalAction ==
    [][ /\ \A r \in ReqIds :
              (slots[r].st = "pending" /\ slots'[r].st # "pending") =>
                  \E res \in {"ok", "JoinFailed", "LeaveFailed", "RequestTimeout"} :
                      \E op \in {"join_group", "leave_group", "joinGroup"} :
                          ret' = <<ReqRet(op, res, r)>>
        /\ \A i \in DOMAIN ret' :
              Terminal(ret'[i]) =>
                  \/ slots[ret'[i].req].st = "pending"
                  \/ slots[ret'[i].req].st = "free" /\ ret'[i].res = "NotOpen"
        /\ (/\ last'.ev = "message" /\ last'.frame.sub \in ReplySubs
            /\ variant = "js1"
            /\ MapGet(IF last'.frame.sub = "join_group_reply"
                      THEN pendingJoins ELSE pendingLeaves, last'.frame.group) = {}) =>
               ret' = <<>> /\ UNCHANGED grpVars
        /\ (/\ last'.ev = "message" /\ last'.frame.sub \in ReplySubs
            /\ variant = "mjs"
            /\ MapGet(pendingJoins, last'.frame.req) = {}) =>
               ret' = <<>> /\ UNCHANGED grpVars ]_vars

\* C20: every key of the pending-join (pending-leave) table has exactly one
\* armed timer and one unsettled promise, and every unsettled join (leave)
\* promise has its entry in the table.
C20_OneTimerOnePromisePerKey ==
    \A kind \in {"join", "leave"} :
        LET tbl == IF kind = "join" THEN pendingJoins ELSE pendingLeaves
            live(g) == {r \in ReqIds : /\ slots[r].st = "pending"
                                        /\ slots[r].kind = kind
                                        /\ slots[r].group = g}
        IN  variant = "js1" =>
              /\ \A e \in tbl : Cardinality(live(e.key)) = 1
              /\ \A r \in ReqIds :
                     (slots[r].st = "pending" /\ slots[r].kind = kind) =>
                         [key |-> slots[r].group, req |-> r] \in tbl

\* inbound direct frames on the sockets of the EventEmitter based class
Js1DirectNext ==
    \E t \in SockIds, f \in DirectFrames : Js1_onMessage(t, f)

\* an agent of the EventEmitter based class or of pan-agent.mjs with its
\* direct frames, listeners and sends
SpecDirect ==
    InitJs1Mjs /\ [][Js1Next \/ Js1DirectNext \/ MjsNext \/ MjsDirectNext]_vars

\* an agent of the EventEmitter based class or of pan-agent.mjs with
\* handlers for every message type and its broadcast frames
SpecOrder ==
    InitJs1Mjs /\ [][Js1Next \/ Js1HandlerNext \/ MjsConnNext \/ MjsOrderNext]_vars

\* an agent of any of the three classes that also receives undecodable data
SpecDecode == Init /\ [][Next \/ BadFrameNext]_vars

\* the two classes of pan-agent.js with their statistics followed, their
\* application sends, and null frames
InitStats == Constructed /\ variant \in {"js1", "js2"} /\ stats = ZeroStats
SpecStats ==
    InitStats /\ [][Js1Next \/ Js2Next \/ Js1SendNext \/ Js2SendNext
                    \/ NullFrameNext]_vars

\* an agent of the EventEmitter based class whose handlers may throw
SpecThrow == InitJs1 /\ [][Js1Next \/ Js1HandlerNext \/ ThrowNext]_vars

\* the identifier derivations of the two classes of pan-agent.js
SpecDerive == InitJs /\ [][DeriveNext]_vars

\* the name of the join operation of the agent's class
JoinOp == IF variant = "mjs" THEN "joinGroup" ELSE "join_group"

\* C21: when the timer of a pending join request fires (no reply has
\* completed it), the request's promise rejects with RequestTimeout, and
\* after that step the pending-join table holds no entry for the request,
\* neither under its key nor anywhere else; RequestTimeout is reported by
\* the request's timer only.
C21_JoinTimeoutRejectsAndCleans ==
    [][ /\ (/\ last'.ev = "requestTimer"
            /\ slots[last'.sock].st = "pending" /\ slots[last'.sock].kind = "join") =>
               LET r == last'.sock
                   key == IF variant = "mjs" THEN r ELSE slots[r].group
               IN  /\ ret' = <<ReqRet(JoinOp, "RequestTimeout", r)>>
                   /\ MapGet(pendingJoins', key) = {}
                   /\ \A e \in pendingJoins' : e.req # r
                   /\ slots'[r].st = "free"
        /\ \A i \in DOMAIN ret' :
               (Terminal(ret'[i]) /\ ret'[i].res = "RequestTimeout") =>
                   /\ last'.ev = "requestTimer" /\ last'.sock = ret'[i].req
                   /\ slots[ret'[i].req].st = "pending" ]_vars

\* a joinGroup sent on an open socket of an authenticated agent timed out
C21_Witness ==
    /\ variant = "mjs"
    /\ last.ev = "requestTimer"
    /\ ret = <<ReqRet("joinGroup", "RequestTimeout", last.sock)>>
    /\ pendingJoins = {}
    /\ connected /\ IsOpen(ws)

\* the requests whose promise is unsettled
PendingReqs == {r \in ReqIds : slots[r].st = "pending"}

\* C22: when the connection is closed, by close() or by the close event of
\* a transport the agent listens to, every pending join or leave promise is
\* rejected with ConnectionClosed in that step and both pending tables are
\* empty afterwards.
C22_CloseRejectsPending ==
    [][ (/\ variant = "js1"
         /\ \/ last'.ev = "close()"
            \/ last'.ev = "close" /\ socks[last'.sock].bound) =>
            /\ pendingJoins' = {} /\ pendingLeaves' = {}
            /\ \A r \in PendingReqs :
                   /\ slots'[r].st # "pending"
                   /\ \E i \in DOMAIN ret' :
                          /\ Terminal(ret'[i]) /\ ret'[i].req = r
                          /\ ret'[i].res = "ConnectionClosed" ]_vars

\* C23: join_group for an identifier whose group is held, on an
\* authenticated agent, builds no new group object: the held set is
\* unchanged (one group for the identifier), the group's registry is its
\* previous registry plus the new message types, the registries of other
\* groups are unchanged, and the join_group request sent lists every type of
\* the registry (one request is sent when the socket is open).
C23_JoinReusesGroup ==
    [][ (/\ last'.ev = "join_group"
         /\ state = "AUTHENTICATED"
         /\ last'.arg.group \in groups) =>
            LET g == last'.arg.group
                hs == last'.arg.hs
            IN  /\ made' = {}
                /\ groups' = groups
                /\ handlers'[g] = handlers[g] \cup hs
                /\ \A h \in Groups \ {g} : handlers'[h] = handlers[h]
                /\ IsOpen(ws) => Len(out') = 1
                /\ \A i \in DOMAIN out' :
                       /\ out'[i].sub = "join_group"
                       /\ out'[i].group = g
                       /\ out'[i].types = handlers'[g] ]_vars

\* a second join_group added message type 2 to a held group that had type 1
C23_Witness ==
    /\ last.ev = "join_group"
    /\ last.arg.hs = {2}
    /\ made = {}
    /\ last.arg.group \in groups
    /\ handlers[last.arg.group] = {1, 2}
    /\ Len(out) = 1 /\ out[1].types = {1, 2}

\* the pending join requests a join reply is for: the request its
\* in_response_to names (pan-agent.mjs), those of its group (pan-agent.js)
JoinsOf(f) ==
    {r \in ReqIds : /\ slots[r].st = "pending" /\ slots[r].kind = "join"
                    /\ IF variant = "mjs" THEN r = f.req ELSE slots[r].group = f.group}

\* C24: when a join reply is handled, every pending join request it is for
\* is settled in that step, resolved on status ok and rejected with
\* JoinFailed otherwise; and a join promise is resolved or rejected with
\* JoinFailed only by a reply with that status for a request that was
\* pending.
C24_JoinSettledByItsReply ==
    [][ /\ (last'.ev = "message" /\ last'.frame.sub = "join_group_reply") =>
               \A r \in JoinsOf(last'.frame) :
                   \E i \in DOMAIN ret' :
                       ret'[i] = ReqRet(JoinOp, IF last'.frame.status = "ok"
                                                THEN "ok" ELSE "JoinFailed", r)
        /\ \A i \in DOMAIN ret' :
               (/\ Terminal(ret'[i]) /\ ret'[i].op = JoinOp
                /\ ret'[i].res \in {"ok", "JoinFailed"}) =>
                   /\ last'.ev = "message" /\ last'.frame.sub = "join_group_reply"
                   /\ (ret'[i].res = "ok") = (last'.frame.status = "ok")
                   /\ ret'[i].req \in JoinsOf(last'.frame) ]_vars

\* C25: when a leave reply arrives for a group that is held (and, in the
\* promise based class, whose leave is pending), then on status ok the group
\* is no longer held, its registry is empty and the group-left signal is
\* emitted, and on a failure status the held set and every registry are
\* unchanged.
C25_LeaveReplyRemovesGroup ==
    [][ (/\ last'.ev = "message" /\ last'.frame.sub = "leave_group_reply"
         /\ last'.frame.group \in groups
         /\ variant = "js1" => MapGet(pendingLeaves, last'.frame.group) # {}) =>
            LET g == last'.frame.group
            IN  IF last'.frame.status = "ok"
                THEN /\ g \notin groups'
                     /\ handlers'[g] = {}
                     /\ \E i \in DOMAIN signals' : signals'[i] \in {"group.left", "group_left"}
                ELSE /\ groups' = groups
                     /\ handlers' = handlers ]_vars

\* C26: when reconnect() resolves, the step (the run of its 'connected'
\* listener, after the re-authentication's auth.ok) has sent a join_group
\* request for every group that was held when reconnect() was called, which
\* lists the group's registered message types, and the held set and the
\* registries are unchanged; join_group is replayed by that listener only.
C26_ReconnectRejoinsGroups ==
    [][ /\ (last'.ev = "task" /\ Ret("reconnect", "ok") \in Range(ret')) =>
               /\ \A g \in calls[last'.sock].held :
                      \E i \in DOMAIN out' :
                          /\ out'[i].sub = "join_group" /\ out'[i].group = g
                          /\ out'[i].types = handlers[g]
               /\ groups' = groups /\ handlers' = handlers
        /\ (last'.ev = "task" /\ out' # <<>>) =>
               /\ last'.frame.sub = "auth.ok"
               /\ Head(tasks).l.kind = "reconnect" ]_vars

\* C27: a derivation returns its input unchanged when the input has the
\* shape of an identifier (an output of a derivation has), and for a name
\* under a namespace it returns the hash of namespace and name, the same
\* identifier on every call and for every class and agent.
C27_DeriveDeterministicPassThrough ==
    last.ev = "derive" =>
        /\ isUuid(last.arg.str) => ret = <<DeriveRet(last.arg.str)>>
        /\ (last.arg.str \in NameStrs /\ isUuid(last.arg.ns)) =>
               ret = <<DeriveRet(uuidv5(last.arg.str, last.arg.ns))>>

\* the handlers a broadcast frame is for: that of its message type on the
\* group held for its group, if there is one
Matching(f) ==
    IF f.group \in groups /\ f.mtype \in handlers[f.group]
    THEN <<Handler(f.group, f.mtype)>>
    ELSE <<>>

\* the deferred invocation of a handler of pan-agent.mjs for a frame
HandlerTask(h, f) == [l |-> Listener("handler", "group", h.group), f |-> f]

DirectListeners == {l \in lsn : l.ev = "direct"}

\* reconnect() was the agent's last connection call, it resolved, and the
\* socket it made has neither failed nor been closed
Reconnected ==
    /\ calls # <<>>
    /\ calls[Len(calls)].kind = "reconnect" /\ calls[Len(calls)].st = "resolved"
    /\ ws # 0 /\ socks[ws].by = Len(calls)
    /\ socks[ws].rs \in {"CONNECTING", "OPEN"}

\* C29: a direct frame received on any socket the agent listens to is
\* emitted once as the direct signal: pan-agent.js emits it in the step,
\* pan-agent.mjs schedules one invocation per registered listener, with the
\* frame unchanged, and a scheduled invocation runs once; and a direct send
\* made after reconnect() resolved is written to the socket reconnect() made.
C29_DirectEmittedOnce ==
    [][ /\ (last'.ev = "message" /\ last'.frame.type = "direct") =>
               IF variant = "mjs"
               THEN /\ Len(tasks') = Len(tasks) + Cardinality(DirectListeners)
                    /\ SubSeq(tasks', 1, Len(tasks)) = tasks
                    /\ \A l \in DirectListeners :
                           \E i \in (Len(tasks) + 1)..Len(tasks') :
                               tasks'[i] = [l |-> l, f |-> last'.frame]
                    /\ Len(SelectSeq(signals', LAMBDA x : x = "direct")) = 1
               ELSE signals' = <<"direct">>
        /\ (last'.ev = "task" /\ Head(tasks).l.ev = "direct") =>
               /\ invoked' = <<Head(tasks)>>
               /\ tasks' = Tail(tasks)
        /\ (variant = "mjs" /\ last'.ev = "send" /\ Reconnected) =>
               /\ ret' = <<Ret("send", "ok")>>
               /\ Len(out') = 1 /\ out'[1].type = "direct" /\ out'[1].sock = ws
               /\ socks[ws].by = Len(calls) ]_vars

\* the invocations pan-agent.mjs schedules in a step: what the step appends
\* to the queue of deferred calls
Scheduled == SubSeq(tasks', Len(tasks) + 1, Len(tasks'))

\* C30: invocations happen in the order their frames were received, once
\* per matching handler.  pan-agent.js invokes the matching handlers of a
\* frame in the step that receives it, and invokes handlers in no other
\* step.  pan-agent.mjs appends one deferred invocation per matching handler
\* of the frame received behind those already waiting, runs the oldest
\* waiting invocation first, and neither drops, repeats nor reorders the
\* others.
C30_InvocationOrder ==
    [][ IF variant = "mjs"
        THEN CASE last'.ev = "task" ->
                      /\ tasks # <<>> /\ tasks' = Tail(tasks)
                      /\ invoked' \in {<<>>, <<Head(tasks)>>}
                      /\ Head(tasks).l.ev = "handler" => invoked' = <<Head(tasks)>>
               [] last'.ev = "message" ->
                      /\ Len(tasks') >= Len(tasks)
                      /\ SubSeq(tasks', 1, Len(tasks)) = tasks
                      /\ \A i \in DOMAIN Scheduled : Scheduled[i].f = last'.frame
                      /\ last'.frame.type = "broadcast" =>
                             Scheduled = [i \in DOMAIN Matching(last'.frame) |->
                                             HandlerTask(Matching(last'.frame)[i],
                                                         last'.frame)]
                      /\ invoked' = <<>>
               [] OTHER ->
                      /\ tasks' = tasks /\ invoked' = <<>>
        ELSE /\ invoked' # <<>> =>
                   /\ last'.ev = "message"
                   /\ invoked' = Matching(last'.frame)
             /\ (last'.ev = "message" /\ last'.frame.type = "broadcast") =>
                   invoked' = Matching(last'.frame) ]_vars

\* the handler of a frame of type 1 runs while the invocation for a frame of
\* type 2, received after it, is waiting
C30_Witness ==
    /\ variant = "mjs"
    /\ last.ev = "task"
    /\ Len(invoked) = 1 /\ invoked[1].l.ev = "handler" /\ invoked[1].f.mtype = 1
    /\ Len(tasks) = 1 /\ tasks[1].l.ev = "handler" /\ tasks[1].f.mtype = 2

\* how often a signal was emitted in the latest step
Emitted(sig) == Len(SelectSeq(signals, LAMBDA x : x = sig))

C32_UndecodableFrameDropped ==
    [][ (last'.ev = "message" /\ last'.frame = BadFrame) =>
            /\ UNCHANGED <<variant, state, ws, socks, node_id, conn_id,
                           connected_at, authenticated_at, heloW, authW>>
            /\ UNCHANGED <<grpVars, mjsVars>>
            /\ signals' = <<>> /\ invoked' = <<>> /\ ret' = <<>> /\ out' = <<>> ]_vars

\* C33: every control frame received, a join_group_reply or
\* leave_group_reply that settles a pending request included, emits the
\* control signal exactly once in the step that receives it.
C33_ControlSignalOnce ==
    [][ (last'.ev = "message" /\ last'.frame.type = "control") =>
            Len(SelectSeq(signals', LAMBDA x : x = "control")) = 1 ]_vars

\* C34: the routing of a broadcast frame does not depend on its handlers:
\* the step that receives the frame emits the generic group / broadcast
\* signal whether or not a handler of the frame throws, and a handler that
\* throws leaves the agent and its sockets as they were, so that later
\* frames are processed.
C34_DispatchIndependentOfHandlers ==
    [][ /\ (last'.ev = "message" /\ last'.frame.type = "broadcast") =>
               \E i \in DOMAIN signals' : signals'[i] \in {"group", "broadcast"}
        /\ (last'.ev = "message" /\ last'.arg = 1) =>
               UNCHANGED <<variant, socks, state, ws, grpVars>> ]_vars

\* C35: a close or error event of a transport that is no longer the agent's
\* current transport (close() was followed by a new connect(), or
\* reconnect() replaced it) changes nothing of the current connection: the
\* state (this.connected in pan-agent.mjs) stays as it was and no
\* disconnected signal is emitted
C35_StaleTransportEventsIgnored ==
    [][ (last'.ev \in {"close", "error"} /\ ws # 0 /\ last'.sock # ws) =>
            /\ UNCHANGED <<state, connected, ws>>
            /\ "disconnected" \notin Range(signals') ]_vars

\* C36: once close() has returned (the agent holds no transport and is
\* DISCONNECTED) the state stays DISCONNECTED until the caller's next
\* connect(): no frame of the closing transport and no resumed connect() or
\* authenticate() moves it to CONNECTED_UNTRUSTED or AUTHENTICATED; so an
\* agent that is CONNECTED_UNTRUSTED or AUTHENTICATED holds a transport
C36_ClosedStaysDisconnected ==
    [][ /\ (Js /\ ws = 0 /\ state = "DISCONNECTED" /\ last'.ev # "connect") =>
                state' = "DISCONNECTED"
        /\ (Js /\ state' \in {"CONNECTED_UNTRUSTED", "AUTHENTICATED"}) => ws' # 0 ]_vars

\* C37: a connection's transition into DISCONNECTED emits the disconnected
\* signal once: after close() (the agent is DISCONNECTED and holds no
\* transport) the close event of the transport it closed emits no second
\* disconnected signal
C37_DisconnectedSignalOnce ==
    [][ (Js /\ last'.ev = "close" /\ state = "DISCONNECTED" /\ ws = 0) =>
            "disconnected" \notin Range(signals') ]_vars

\* an agent of pan-agent.mjs whose timers fire: a callback deferred with
\* setTimeout(fn, 0) is eventually run by the event loop
SpecMjsLive == InitMjs /\ [][MjsNext]_vars /\ WF_vars(Mjs_runTask)

\* the server's auth.failed has just arrived on the transport that call c, a
\* reconnect() whose promise is pending, created
AuthRejected(c) ==
    /\ c <= Len(calls)
    /\ calls[c].kind = "reconnect" /\ calls[c].st = "pending"
    /\ last.ev = "message" /\ last.frame.sub = "auth.failed"
    /\ socks[last.sock].by = c

\* C38: a reconnect() whose new transport opened and whose
\* re-authentication the server rejected (auth.failed) eventually settles:
\* its promise does not stay pending forever
C38_ReconnectSettles ==
    \A c \in 1..MaxSocks :
        AuthRejected(c) ~> (c <= Len(calls) /\ calls[c].st # "pending")

\* C39: a handler of group G runs for an inbound broadcast frame only while
\* the server has acknowledged the membership: none runs for a frame that
\* arrives while the join request for G is pending.  (Checked where no
\* join_group_reply is delivered to the EventEmitter based class, so that a
\* pending request is one for a membership never acknowledged.)
C39_HandlersOnlyForAcknowledgedGroups ==
    [][ (/\ variant = "js1"
         /\ last'.ev = "message" /\ last'.frame.type = "broadcast"
         /\ MapGet(pendingJoins, last'.frame.group) # {}) =>
            invoked' = <<>> ]_vars

Sum(fn) == fn["direct"] + fn["group"] + fn["control"] + fn["unknown"] + fn["broadcast"]

\* C40: the statistics are consistent and never decrease: after every step
\* msgs_in_total is the sum of the msgs_in_by_type counters, msgs_out_total
\* the sum of the msgs_out_by_type counters, and no counter is lower than it
\* was before the step
C40_StatsConsistentMonotone ==
    [][ stats.kept =>
            /\ stats'.msgs_in_total = Sum(stats'.msgs_in_by_type)
            /\ stats'.msgs_out_total = Sum(stats'.msgs_out_by_type)
            /\ stats'.msgs_in_total >= stats.msgs_in_total
            /\ stats'.msgs_out_total >= stats.msgs_out_total
            /\ \A k \in StatTypes :
                  /\ stats'.msgs_in_by_type[k] >= stats.msgs_in_by_type[k]
                  /\ stats'.msgs_out_by_type[k] >= stats.msgs_out_by_type[k] ]_vars
====
